---- MODULE Spec2Model ----
(***************************************************************************)
(* Model of the dataset validation engine (validation/validate_data.py)    *)
(* and of the SQLite loader (implementation/ingestion/load_db.py).         *)
(*                                                                         *)
(* Encodings.                                                              *)
(*   text           a TLA+ string; None (csv.DictReader's restval for a    *)
(*                  field missing from a short row) is the value None      *)
(*   int            an integer                                             *)
(*   float          a record [nan, tenths]: the value in tenths, or NaN    *)
(*   date           an integer yyyymmdd, so that < is chronological order; *)
(*                  Python's None in a date column is NoneDate             *)
(*   datetime       a pair <<yyyymmdd, hhmm>>                              *)
(*   file           [exists, lines]; a line is the sequence of its fields  *)
(*                  as csv.reader yields them, << >> for a blank line      *)
(*   typed row      a function from column name (and "_line") to value     *)
(*   log entry      [level, dataset, line, kind, col, valid, invalid];     *)
(*                  the utc_now() timestamp of an entry is left out        *)
(***************************************************************************)
EXTENDS Integers, Sequences, FiniteSets, TLC

\* ------------------------------------------------------------------ bounds
\* most data rows in a file of the schema-validation specification
MaxRows == 2
\* most data rows in a file of the whole-run specification
RunRows == 1
\* most typed rows handed to a second-stage validator on its own
StageRows == 2

\* most data rows in a file whose auto_renew texts are parsed
BoolRows == 2
\* most data rows in the customers and content files of a run whose usage
\* rows refer to them
RefRows == 2
\* most data rows in the subscriptions file of a load whose rows differ in
\* their auto_renew text
RenewRows == 1
\* the number of rows generate_subscriptions makes (NUM_SUBSCRIPTIONS, 1200
\* in the source)
GenRows == 1
\* most data rows in the file ingest_table is called on, and most rows in a
\* table before the call
IngestRows == 1
\* most lines after the header in a file that goes through both stages
PipeRows == 3

\* ------------------------------------------------------------ value domain
None == "<None>"
NoneDate == 0

Range(s) == {s[i] : i \in 1..Len(s)}

\* position of column c in the column sequence cols (0 if absent)
IndexOf(cols, c) ==
  IF \E i \in 1..Len(cols) : cols[i] = c
    THEN CHOOSE i \in 1..Len(cols) : cols[i] = c /\ \A j \in 1..(i-1) : cols[j] # c
    ELSE 0

Ok(v) == [ok |-> TRUE, val |-> v, exc |-> "none"]
Fail(e) == [ok |-> FALSE, val |-> 0, exc |-> e]

Float(t) == [nan |-> FALSE, tenths |-> t]
NaN == [nan |-> TRUE, tenths |-> 0]

\* int(value): surrounding whitespace and a sign are accepted
parse_int(value) ==
  CASE value = None -> Fail("TypeError")
    [] value = "0" -> Ok(0)
    [] value = "1" -> Ok(1)
    [] value = "2" -> Ok(2)
    [] value = " 2" -> Ok(2)
    [] value = "3" -> Ok(3)
    [] value = "+3" -> Ok(3)
    [] OTHER -> Fail("ValueError")

\* float(value), in tenths
parse_float(value) ==
  CASE value = None -> Fail("TypeError")
    [] value = "0" -> Ok(Float(0))
    [] value = "0.0" -> Ok(Float(0))
    [] value = "0.5" -> Ok(Float(5))
    [] value = "1" -> Ok(Float(10))
    [] value = "1.0" -> Ok(Float(10))
    [] value = "1.5" -> Ok(Float(15))
    [] value = "-0.1" -> Ok(Float(-1))
    [] value = "8.5" -> Ok(Float(85))
    [] value = "nan" -> Ok(NaN)
    [] OTHER -> Fail("ValueError")

\* datetime.fromisoformat(value)
fromisoformat(value) ==
  CASE value = None -> Fail("TypeError")
    [] value = "2024-01-01" -> Ok(<<20240101, 0>>)
    [] value = "2024-06-15" -> Ok(<<20240615, 0>>)
    [] value = "2024-12-31" -> Ok(<<20241231, 0>>)
    [] value = "2024-01-01T10:00:00" -> Ok(<<20240101, 1000>>)
    [] value = "2024-12-31T23:59:00" -> Ok(<<20241231, 2359>>)
    [] OTHER -> Fail("ValueError")

\* `not value`: None and the empty text are falsy
Falsy(value) == value = None \/ value = ""

parse_date(value) ==
  IF Falsy(value) THEN Fail("ValueError")
  ELSE LET d == fromisoformat(value) IN
       IF d.ok THEN Ok(d.val[1]) ELSE d

\* (variant) the empty text is not taken for an absent date
parse_optional_date_Required(value) == parse_date(value)

parse_optional_date(value) ==
  IF Falsy(value) THEN Ok(NoneDate) ELSE parse_date(value)

parse_datetime(value) ==
  IF Falsy(value) THEN Fail("ValueError") ELSE fromisoformat(value)

\* value.strip()
Strip(value) ==
  CASE value = " true " -> "true"
    [] value = " TRUE" -> "TRUE"
    [] value = " 1" -> "1"
    [] value = "no " -> "no"
    [] value = "0 " -> "0"
    [] value = " " -> ""
    [] OTHER -> value

\* value.lower()
Lower(value) ==
  CASE value = "True" -> "true"
    [] value = "TRUE" -> "true"
    [] value = "tRuE" -> "true"
    [] value = " TRUE" -> " true"
    [] value = "False" -> "false"
    [] value = "FALSE" -> "false"
    [] value = "Yes" -> "yes"
    [] value = "YES" -> "yes"
    [] value = "No" -> "no"
    [] value = "NO" -> "no"
    [] value = "Maybe" -> "maybe"
    [] OTHER -> value

\* (variant) the text is lower-cased but not stripped
parse_bool_NoStrip(value) ==
  IF value = None THEN Fail("AttributeError")
  ELSE LET normalized == Lower(value) IN
       IF normalized \in {"true", "1", "yes"} THEN Ok(TRUE)
       ELSE IF normalized \in {"false", "0", "no"} THEN Ok(FALSE)
       ELSE Fail("ValueError")

parse_bool(value) ==
  IF value = None THEN Fail("AttributeError")
  ELSE LET normalized == Lower(Strip(value)) IN
       IF normalized \in {"true", "1", "yes"} THEN Ok(TRUE)
       ELSE IF normalized \in {"false", "0", "no"} THEN Ok(FALSE)
       ELSE Fail("ValueError")

\* ---------------------------------------------------------------- schemas
Datasets == <<"customers", "plans", "content", "subscriptions", "usage_logs">>
DatasetNames == Range(Datasets)

SCHEMA_CONFIG ==
  [customers |->
     [columns |-> <<"customer_id", "name", "email", "signup_date",
                    "device_type", "country">>,
      parsers |-> [customer_id |-> "parse_int", signup_date |-> "parse_date"]],
   plans |->
     [columns |-> <<"plan_id", "name", "price">>,
      parsers |-> [plan_id |-> "parse_int", price |-> "parse_float"]],
   content |->
     [columns |-> <<"content_id", "title", "genre", "duration_minutes">>,
      parsers |-> [content_id |-> "parse_int", duration_minutes |-> "parse_int"]],
   subscriptions |->
     [columns |-> <<"subscription_id", "customer_id", "plan_id", "start_date",
                    "end_date", "auto_renew">>,
      parsers |-> [subscription_id |-> "parse_int", customer_id |-> "parse_int",
                   plan_id |-> "parse_int", start_date |-> "parse_date",
                   end_date |-> "parse_optional_date",
                   auto_renew |-> "parse_bool"]],
   usage_logs |->
     [columns |-> <<"usage_id", "customer_id", "content_id", "timestamp",
                    "duration_watched", "completion_rate">>,
      parsers |-> [usage_id |-> "parse_int", customer_id |-> "parse_int",
                   content_id |-> "parse_int", timestamp |-> "parse_datetime",
                   duration_watched |-> "parse_int",
                   completion_rate |-> "parse_float"]]]

\* parser(value) for the parser configured under that name
ApplyParser(parser, value) ==
  CASE parser = "parse_int" -> parse_int(value)
    [] parser = "parse_float" -> parse_float(value)
    [] parser = "parse_date" -> parse_date(value)
    [] parser = "parse_optional_date" -> parse_optional_date(value)
    [] parser = "parse_datetime" -> parse_datetime(value)
    [] parser = "parse_bool" -> parse_bool(value)

\* parsers.get(col) is truthy
HasParser(dataset, col) == col \in DOMAIN SCHEMA_CONFIG[dataset].parsers

\* -------------------------------------------------------- csv.DictReader
\* (variant) a file with nothing after its first line counts as headerless
HasHeader_NeedsData(file) == Len(file.lines) > 1

\* reader.fieldnames is None when the file has no line at all
HasHeader(file) == Len(file.lines) > 0

\* reader.fieldnames: the first line, also when it is blank
Fieldnames(file) == file.lines[1]

\* the rows the reader yields: the lines after the header, blank ones skipped
DataRows(file) ==
  IF file.lines = << >> THEN << >>
  ELSE SelectSeq(Tail(file.lines), LAMBDA l : l # << >>)

\* (variant) a field the line lacks is the empty text
RowValue_Empty(fieldnames, line, col) ==
  LET i == IndexOf(fieldnames, col) IN
  IF i > 0 /\ i <= Len(line) THEN line[i] ELSE ""

\* row[col] of the dict the reader builds from a line: fields are matched to
\* the header by position and a field the line lacks is None
RowValue(fieldnames, line, col) ==
  LET i == IndexOf(fieldnames, col) IN
  IF i > 0 /\ i <= Len(line) THEN line[i] ELSE None

\* --------------------------------------------------------------- logging
LogEntry(level, dataset, line, kind, col, valid, invalid) ==
  [level |-> level, dataset |-> dataset, line |-> line, kind |-> kind,
   col |-> col, valid |-> valid, invalid |-> invalid]

\* log_row_error(dataset, line_number, message); the message is its kind and,
\* for a parse failure "{col}: {exc}", the column
log_row_error(dataset, line_number, kind, col) ==
  LogEntry("ERROR", dataset, line_number, kind, col, 0, 0)

\* the logging.info line that closes a stage
log_complete(dataset, stage, valid, invalid) ==
  LogEntry("INFO", dataset, 0, stage, "", valid, invalid)

\* ------------------------------------------- load_and_validate_schema
NoExc == [type |-> "none", msg |-> ""]
Exc(type, msg) == [type |-> type, msg |-> msg]

EmptyRow == [c \in {} |-> 0]

\* (variant) the header compared as a set of names, blind to order
HeaderMismatch_AsSets(fieldnames, expected_columns) ==
  Range(fieldnames) # Range(expected_columns)

\* reader.fieldnames != expected_columns is a comparison of two lists
HeaderMismatch(fieldnames, expected_columns) == fieldnames # expected_columns

\* (variant) the header is not compared with the declared columns
OpenChecks_NoHeaderCheck(dataset, file) ==
  IF ~file.exists THEN Exc("FileNotFoundError", "Required dataset missing")
  ELSE IF ~HasHeader(file) THEN Exc("ValueError", "no header row")
  ELSE NoExc

\* (variant) a dataset without a file is taken for one without rows
OpenChecks_MissingIsEmpty(dataset, file) ==
  IF ~file.exists THEN NoExc
  ELSE IF ~HasHeader(file) THEN Exc("ValueError", "no header row")
  ELSE IF HeaderMismatch(Fieldnames(file), SCHEMA_CONFIG[dataset].columns)
    THEN Exc("ValueError", "column mismatch")
  ELSE NoExc

\* the checks made before the row loop: the exception raised, or NoExc
OpenChecks(dataset, file) ==
  IF ~file.exists THEN Exc("FileNotFoundError", "Required dataset missing")
  ELSE IF ~HasHeader(file) THEN Exc("ValueError", "no header row")
  ELSE IF HeaderMismatch(Fieldnames(file), SCHEMA_CONFIG[dataset].columns)
    THEN Exc("ValueError", "column mismatch")
  ELSE NoExc

\* (variant) the column loop goes on after a failure instead of breaking
OnParseFailure_NoBreak(dataset, line_number, col, r, typed_row, i) ==
  [row_valid |-> FALSE, typed_row |-> typed_row, invalid |-> 1,
   errors |-> <<log_row_error(dataset, line_number, r.exc, col)>>,
   next |-> i + 1]

\* what happens when a parser raises: the invalid counter goes up by one, one
\* diagnostic "{col}: {exc}" is logged and the column loop is left (break)
OnParseFailure(dataset, line_number, col, r, typed_row, i) ==
  [row_valid |-> FALSE, typed_row |-> typed_row, invalid |-> 1,
   errors |-> <<log_row_error(dataset, line_number, r.exc, col)>>,
   next |-> Len(SCHEMA_CONFIG[dataset].columns) + 1]

\* (variant) the text of a column without parser is stripped
PassThrough_Stripped(value) == Strip(value)

\* typed_row[col] = value for a column without parser
PassThrough(value) == value

\* the column loop of one row, from column i on (the header equals
\* expected_columns once the loop is reached). acc is [row_valid, typed_row,
\* invalid, errors]
RECURSIVE ParseColumns(_, _, _, _, _)
ParseColumns(dataset, line_number, line, i, acc) ==
  LET expected_columns == SCHEMA_CONFIG[dataset].columns IN
  IF i > Len(expected_columns) THEN acc
  ELSE
    LET col == expected_columns[i]
        value == RowValue(expected_columns, line, col)
    IN
    IF HasParser(dataset, col)
      THEN LET r == ApplyParser(SCHEMA_CONFIG[dataset].parsers[col], value) IN
           IF r.ok
             THEN ParseColumns(dataset, line_number, line, i + 1,
                    [acc EXCEPT !.typed_row = @ @@ (col :> r.val)])
             ELSE LET f == OnParseFailure(dataset, line_number, col, r,
                                          acc.typed_row, i)
                  IN ParseColumns(dataset, line_number, line, f.next,
                       [row_valid |-> f.row_valid, typed_row |-> f.typed_row,
                        invalid |-> acc.invalid + f.invalid,
                        errors |-> acc.errors \o f.errors])
      ELSE ParseColumns(dataset, line_number, line, i + 1,
             [acc EXCEPT !.typed_row = @ @@ (col :> PassThrough(value))])

\* (variant) every row is given the number of the first data line
LineNumber_Constant(k) == 2

\* enumerate(reader, start=2): the number paired with the k-th row the reader
\* yields
LineNumber(k) == k + 1

\* one iteration of `for line_number, row in enumerate(reader, start=2)`
ParseRow(dataset, line_number, line) ==
  ParseColumns(dataset, line_number, line, 1,
    [row_valid |-> TRUE, typed_row |-> EmptyRow, invalid |-> 0,
     errors |-> << >>])

\* (variant) the row is appended whether or not it parsed
KeepRow_Always(rows, r, line_number) ==
  Append(rows, r.typed_row @@ ("_line" :> line_number))

\* if row_valid: typed_row["_line"] = line_number; valid_rows.append(typed_row)
KeepRow(rows, r, line_number) ==
  IF r.row_valid
    THEN Append(rows, r.typed_row @@ ("_line" :> line_number))
    ELSE rows

\* the row loop from the k-th yielded row on; acc is [valid_rows,
\* invalid_count, log]
RECURSIVE SchemaLoop(_, _, _, _)
SchemaLoop(dataset, rows, k, acc) ==
  IF k > Len(rows) THEN acc
  ELSE LET r == ParseRow(dataset, LineNumber(k), rows[k]) IN
       SchemaLoop(dataset, rows, k + 1,
         [valid_rows |-> KeepRow(acc.valid_rows, r, LineNumber(k)),
          invalid_count |-> acc.invalid_count + r.invalid,
          log |-> acc.log \o r.errors])

\* (variant) no try/except around the parser call: the first parse failure
\* leaves the function as an exception
load_and_validate_schema_Unguarded(dataset, file) ==
  LET exc == OpenChecks(dataset, file) IN
  IF exc # NoExc
    THEN [raised |-> exc, valid_rows |-> << >>, invalid_count |-> 0,
          log |-> << >>]
    ELSE LET acc == SchemaLoop(dataset, DataRows(file), 1,
                      [valid_rows |-> << >>, invalid_count |-> 0,
                       log |-> << >>])
         IN IF acc.invalid_count > 0
              THEN [raised |-> Exc(acc.log[1].kind, "parser"),
                    valid_rows |-> << >>, invalid_count |-> 0, log |-> << >>]
              ELSE [raised |-> NoExc, valid_rows |-> acc.valid_rows,
                    invalid_count |-> acc.invalid_count,
                    log |-> Append(acc.log,
                              log_complete(dataset, "schema validation complete",
                                           Len(acc.valid_rows),
                                           acc.invalid_count))]

\* load_and_validate_schema(dataset) on the given file: the exception raised
\* (NoExc on return), the returned pair and the lines logged
load_and_validate_schema(dataset, file) ==
  LET exc == OpenChecks(dataset, file) IN
  IF exc # NoExc
    THEN [raised |-> exc, valid_rows |-> << >>, invalid_count |-> 0,
          log |-> << >>]
    ELSE LET acc == SchemaLoop(dataset, DataRows(file), 1,
                      [valid_rows |-> << >>, invalid_count |-> 0,
                       log |-> << >>])
         IN [raised |-> NoExc, valid_rows |-> acc.valid_rows,
             invalid_count |-> acc.invalid_count,
             log |-> Append(acc.log,
                       log_complete(dataset, "schema validation complete",
                                    Len(acc.valid_rows), acc.invalid_count))]

\* --------------------------------------------- validate_subscriptions_logic
\* (variant) a subscription that ends on its start date is rejected too
StartAfterEnd_OrEqual(row) ==
  row["end_date"] # NoneDate /\ row["start_date"] >= row["end_date"]

\* `end_date and start_date > end_date`: None is falsy, a date never is
StartAfterEnd(row) ==
  row["end_date"] # NoneDate /\ row["start_date"] > row["end_date"]

\* (variant) a row whose subscription_id was already kept is left out
SubsStep_Dedup(acc, row) ==
  IF StartAfterEnd(row)
    THEN [valid |-> acc.valid, invalid |-> acc.invalid + 1,
          log |-> Append(acc.log,
                    log_row_error("subscriptions", row["_line"],
                                  "start_date after end_date", ""))]
    ELSE IF \E j \in 1..Len(acc.valid) :
              acc.valid[j]["subscription_id"] = row["subscription_id"]
      THEN acc
      ELSE [acc EXCEPT !.valid = Append(@, row)]

\* one iteration of the loop over rows; acc is [valid, invalid, log]
SubsStep(acc, row) ==
  IF StartAfterEnd(row)
    THEN [valid |-> acc.valid, invalid |-> acc.invalid + 1,
          log |-> Append(acc.log,
                    log_row_error("subscriptions", row["_line"],
                                  "start_date after end_date", ""))]
    ELSE [acc EXCEPT !.valid = Append(@, row)]

RECURSIVE SubsLoop(_, _, _)
SubsLoop(rows, k, acc) ==
  IF k > Len(rows) THEN acc ELSE SubsLoop(rows, k + 1, SubsStep(acc, rows[k]))

\* validate_subscriptions_logic(rows): the returned pair and the lines logged
validate_subscriptions_logic(rows) ==
  LET acc == SubsLoop(rows, 1, [valid |-> << >>, invalid |-> 0, log |-> << >>])
  IN [valid |-> acc.valid, invalid |-> acc.invalid,
      log |-> Append(acc.log,
                log_complete("subscriptions", "logical validation complete",
                             Len(acc.valid), acc.invalid))]

\* ----------------------------------------------------- validate_usage_rules
NoDict == [k \in {} |-> 0]

\* (variant) the upper bound of the range taken as exclusive
RateOutOfRange_Exclusive(rate) ==
  rate.nan \/ ~(0 <= rate.tenths /\ rate.tenths < 10)

\* `not 0 <= completion_rate <= 1`; every comparison with NaN is false
RateOutOfRange(rate) ==
  rate.nan \/ ~(0 <= rate.tenths /\ rate.tenths <= 10)

\* (variant) the checks stop at the first violation
UsageErrors_FirstOnly(row, ids, durations) ==
  IF row["customer_id"] \notin ids THEN <<"unknown customer_id">>
  ELSE IF row["content_id"] \notin DOMAIN durations THEN <<"unknown content_id">>
  ELSE IF row["duration_watched"] > durations[row["content_id"]]
    THEN <<"duration_watched exceeds content duration">>
  ELSE IF RateOutOfRange(row["completion_rate"])
    THEN <<"completion_rate outside 0-1 range">>
  ELSE << >>

\* the errors list built for one row, in the order the checks are made
UsageErrors(row, ids, durations) ==
  (IF row["customer_id"] \notin ids
     THEN <<"unknown customer_id">> ELSE << >>)
  \o (IF row["content_id"] \notin DOMAIN durations
        THEN <<"unknown content_id">>
        ELSE IF row["duration_watched"] > durations[row["content_id"]]
          THEN <<"duration_watched exceeds content duration">>
          ELSE << >>)
  \o (IF RateOutOfRange(row["completion_rate"])
        THEN <<"completion_rate outside 0-1 range">> ELSE << >>)

\* one iteration of the loop over rows; acc is [valid, invalid, log]
UsageStep(acc, row, ids, durations) ==
  LET errs == UsageErrors(row, ids, durations) IN
  IF errs # << >>
    THEN [valid |-> acc.valid, invalid |-> acc.invalid + 1,
          log |-> acc.log \o
                  [i \in 1..Len(errs) |->
                     log_row_error("usage_logs", row["_line"], errs[i], "")]]
    ELSE [acc EXCEPT !.valid = Append(@, row)]

RECURSIVE UsageLoop(_, _, _, _, _)
UsageLoop(rows, k, acc, ids, durations) ==
  IF k > Len(rows) THEN acc
  ELSE UsageLoop(rows, k + 1, UsageStep(acc, rows[k], ids, durations),
                 ids, durations)

\* (variant) the rows are counted and logged but returned unfiltered
validate_usage_rules_Unfiltered(rows, ids, durations) ==
  LET acc == UsageLoop(rows, 1, [valid |-> << >>, invalid |-> 0, log |-> << >>],
                       ids, durations)
  IN [valid |-> rows, invalid |-> acc.invalid,
      log |-> Append(acc.log,
                log_complete("usage_logs",
                             "referential/logical validation complete",
                             Len(acc.valid), acc.invalid))]

\* validate_usage_rules(rows, customer_ids, content_duration)
validate_usage_rules(rows, ids, durations) ==
  LET acc == UsageLoop(rows, 1, [valid |-> << >>, invalid |-> 0, log |-> << >>],
                       ids, durations)
  IN [valid |-> acc.valid, invalid |-> acc.invalid,
      log |-> Append(acc.log,
                log_complete("usage_logs",
                             "referential/logical validation complete",
                             Len(acc.valid), acc.invalid))]

\* ------------------------------------------------------------------ state
VARIABLES
  files,          \* dataset name -> the file at SCHEMA_CONFIG[dataset]["path"]
  log,            \* the lines logged so far
  raised,         \* the exception that ended the operation, NoExc if none
  \* locals of load_and_validate_schema, stepped row by row
  dataset, spc, reader, line_number, valid_rows, invalid_count, typed_row,
  row_valid,
  \* locals of a second-stage validator (validate_subscriptions_logic or
  \* validate_usage_rules), stepped row by row: its argument rows, the rows
  \* consumed so far, its two accumulators and the errors of the last row
  rows, vpc, idx, valid, invalid, errors,
  \* the lookup arguments of validate_usage_rules (locals of run_validations)
  customer_ids, content_duration,
  \* run_validations: its position and its locals
  pc, customers, cust_invalid, plans, plans_invalid, content, content_invalid,
  subscriptions, subs_invalid, subs_logic_invalid, usage_logs, usage_invalid,
  usage_logic_invalid, summary,
  \* load_db.main: its position, the index of the table load_all_tables
  \* ingests next, and the committed rows of every table of the database
  lpc, table_i, db, held,
  \* the caller of run_validations: which run of the validation this is, and
  \* the outcome of the run before it
  run, first,
  \* generate_subscriptions: its position, the current UTC date as a day
  \* number, and the rows generated so far
  gpc, today, generated

commonVars == <<files, log, raised>>
schemaVars == <<dataset, spc, reader, line_number, valid_rows, invalid_count,
                typed_row, row_valid>>
stageVars == <<rows, vpc, idx, valid, invalid, errors>>
refVars == <<customer_ids, content_duration>>
runVars == <<pc, customers, cust_invalid, plans, plans_invalid, content,
             content_invalid, subscriptions, subs_invalid, subs_logic_invalid,
             usage_logs, usage_invalid, usage_logic_invalid, summary>>
loadVars == <<lpc, table_i, db, held>>
twiceVars == <<run, first>>
genVars == <<gpc, today, generated>>
vars == <<commonVars, schemaVars, stageVars, refVars, runVars, loadVars,
          twiceVars, genVars>>

NoFile == [exists |-> FALSE, lines |-> << >>]

SchemaIdle ==
  /\ dataset = "customers" /\ spc = "idle" /\ reader = 0 /\ line_number = 0
  /\ valid_rows = << >> /\ invalid_count = 0 /\ typed_row = EmptyRow
  /\ row_valid = TRUE

StageIdle ==
  /\ rows = << >> /\ vpc = "idle" /\ idx = 0 /\ valid = << >> /\ invalid = 0
  /\ errors = << >>

RefIdle == customer_ids = {} /\ content_duration = NoDict

RunIdle ==
  /\ pc = "idle" /\ summary = NoDict
  /\ customers = << >> /\ cust_invalid = 0
  /\ plans = << >> /\ plans_invalid = 0
  /\ content = << >> /\ content_invalid = 0
  /\ subscriptions = << >> /\ subs_invalid = 0 /\ subs_logic_invalid = 0
  /\ usage_logs = << >> /\ usage_invalid = 0 /\ usage_logic_invalid = 0

LoadIdle ==
  /\ lpc = "idle" /\ table_i = 0 /\ db = [t \in DatasetNames |-> << >>]
  /\ held = << >>

NoFiles == [d \in DatasetNames |-> NoFile]

TwiceIdle == run = 1 /\ first = NoDict

GenIdle == gpc = "idle" /\ today = 0 /\ generated = << >>

\* ----------------------------------------------------------------- inputs
\* the lines a file of the dataset is made of: every column takes a few
\* texts, some its parser accepts and some it rejects; then a line with too
\* few fields, one with too many, and a blank line
FullLines(ds) ==
  CASE ds = "customers" ->
         {<<i, "Ann", "a@x", d, "mobile", "India">> :
            i \in {"1", " 2", "x"}, d \in {"2024-01-01", ""}}
    [] ds = "plans" ->
         {<<i, n, p>> : i \in {"1", "x"}, n \in {"Basic", "", " "},
                        p \in {"8.5", "free"}}
    [] ds = "content" ->
         {<<i, "T", "movie", m>> : i \in {"1", "x"}, m \in {"2", "long"}}
    [] ds = "subscriptions" ->
         {<<i, "1", "1", s, e, a>> :
            i \in {"1", "x"}, s \in {"2024-06-15", ""},
            e \in {"", "bad"}, a \in {"True", "maybe"}}
    [] ds = "usage_logs" ->
         {<<"1", c, "1", t, w, r>> :
            c \in {"1", "x"}, t \in {"2024-01-01T10:00:00", ""},
            w \in {"2", "x"}, r \in {"0.5", "nan", "abc"}}

ShortLine(ds) ==
  CASE ds = "customers" -> <<"1", "Ann", "a@x">>
    [] ds = "plans" -> <<"1", "Basic">>
    [] ds = "content" -> <<"1", "T", "movie">>
    [] ds = "subscriptions" -> <<"1", "1", "1", "2024-06-15">>
    [] ds = "usage_logs" -> <<"1", "1", "1">>

LongLine(ds) ==
  CASE ds = "customers" -> <<"3", "Bob", "b@x", "2024-12-31", "tablet", "Canada", "more">>
    [] ds = "plans" -> <<"3", "Premium", "8.5", "more">>
    [] ds = "content" -> <<"3", "U", "music", "3", "more">>
    [] ds = "subscriptions" -> <<"3", "1", "1", "2024-01-01", "2024-12-31", "no ", "more">>
    [] ds = "usage_logs" -> <<"3", "1", "1", "2024-12-31T23:59:00", "1", "1.0", "more">>

\* lines that lack only columns without parser: the customers columns
\* device_type and country are the only ones a line can lack that way
TextShortLines(ds) ==
  IF ds = "customers"
    THEN {<<i, "Ann", "a@x", "2024-01-01">> : i \in {"1", "x"}}
    ELSE {}

Lines(ds) ==
  FullLines(ds) \cup {ShortLine(ds), LongLine(ds), << >>}
    \cup TextShortLines(ds)

\* the headers tried: the declared one, one column short, one column more,
\* the first column renamed, the first two columns swapped, a blank line
Headers(ds) ==
  LET e == SCHEMA_CONFIG[ds].columns IN
  {e, SubSeq(e, 1, Len(e) - 1), Append(e, "extra"), [e EXCEPT ![1] = "id"],
   [e EXCEPT ![1] = e[2], ![2] = e[1]], << >>}

\* the file of a given shape: "absent" is no file, "empty" a file without any
\* line, "lines" the header h followed by the body b
FileWith(shape, h, b) ==
  CASE shape = "absent" -> NoFile
    [] shape = "empty" -> [exists |-> TRUE, lines |-> << >>]
    [] shape = "lines" -> [exists |-> TRUE, lines |-> <<h>> \o b]

\* ---------------------------- load_and_validate_schema, one row at a time
\* the call: path.exists(), the header checks, the two accumulators
SOpen ==
  /\ spc = "open"
  /\ LET exc == OpenChecks(dataset, files[dataset]) IN
     /\ raised' = exc
     /\ spc' = IF exc = NoExc THEN "rows" ELSE "raised"
  /\ UNCHANGED <<files, log, dataset, reader, line_number, valid_rows,
                 invalid_count, typed_row, row_valid>>
  /\ UNCHANGED <<stageVars, refVars, runVars, loadVars>>
  /\ UNCHANGED twiceVars
  /\ UNCHANGED genVars

\* one iteration of the row loop
SRow ==
  /\ spc = "rows"
  /\ reader < Len(DataRows(files[dataset]))
  /\ LET r == ParseRow(dataset, LineNumber(reader + 1),
                       DataRows(files[dataset])[reader + 1])
     IN /\ reader' = reader + 1
        /\ line_number' = LineNumber(reader + 1)
        /\ row_valid' = r.row_valid
        /\ invalid_count' = invalid_count + r.invalid
        /\ log' = log \o r.errors
        /\ valid_rows' = KeepRow(valid_rows, r, LineNumber(reader + 1))
        /\ typed_row' = IF r.row_valid
                          THEN r.typed_row @@ ("_line" :> LineNumber(reader + 1))
                          ELSE r.typed_row
  /\ UNCHANGED <<files, raised, dataset, spc>>
  /\ UNCHANGED <<stageVars, refVars, runVars, loadVars>>
  /\ UNCHANGED twiceVars
  /\ UNCHANGED genVars

\* the reader is exhausted: the closing log line and the return
SReturn ==
  /\ spc = "rows"
  /\ reader = Len(DataRows(files[dataset]))
  /\ log' = Append(log, log_complete(dataset, "schema validation complete",
                                     Len(valid_rows), invalid_count))
  /\ spc' = "returned"
  /\ UNCHANGED <<files, raised, dataset, reader, line_number, valid_rows,
                 invalid_count, typed_row, row_valid>>
  /\ UNCHANGED <<stageVars, refVars, runVars, loadVars>>
  /\ UNCHANGED twiceVars
  /\ UNCHANGED genVars

InitSchema ==
  /\ dataset \in DatasetNames
  /\ \E shape \in {"absent", "empty", "lines"} : \E h \in Headers(dataset) :
     \E k \in 0..MaxRows : \E b \in [1..k -> Lines(dataset)] :
       /\ shape # "lines" => (k = 0 /\ h = SCHEMA_CONFIG[dataset].columns)
       /\ files = [d \in DatasetNames |->
                     IF d = dataset THEN FileWith(shape, h, b) ELSE NoFile]
  /\ log = << >> /\ raised = NoExc
  /\ spc = "open" /\ reader = 0 /\ line_number = 0
  /\ valid_rows = << >> /\ invalid_count = 0 /\ typed_row = EmptyRow
  /\ row_valid = TRUE
  /\ StageIdle /\ RefIdle /\ RunIdle /\ LoadIdle
  /\ TwiceIdle
  /\ GenIdle

NextSchema == SOpen \/ SRow \/ SReturn

SpecSchema == InitSchema /\ [][NextSchema]_vars

\* ------------------------------------- parse_bool on the auto_renew column
\* the texts tried in the auto_renew column: the six literals in lower,
\* capitalised, upper and mixed case, literals with whitespace around them,
\* the empty and the blank text, and other words
BoolTextSet ==
  {"true", "True", "TRUE", "tRuE", "1", "yes", "Yes", "YES",
   "false", "False", "FALSE", "0", "no", "No", "NO",
   " true ", " TRUE", " 1", "no ", "0 ",
   "", " ", "maybe", "Maybe", "2", "on", "t"}

\* a subscriptions line that parses on every column before auto_renew
BoolLine(a) == <<"1", "1", "1", "2024-06-15", "", a>>

\* a subscriptions file with the declared header whose rows differ in their
\* auto_renew text only
InitBool ==
  /\ dataset = "subscriptions"
  /\ \E k \in 0..BoolRows : \E b \in [1..k -> BoolTextSet] :
       files = [d \in DatasetNames |->
                  IF d = dataset
                    THEN FileWith("lines", SCHEMA_CONFIG[dataset].columns,
                                  [i \in 1..k |-> BoolLine(b[i])])
                    ELSE NoFile]
  /\ log = << >> /\ raised = NoExc
  /\ spc = "open" /\ reader = 0 /\ line_number = 0
  /\ valid_rows = << >> /\ invalid_count = 0 /\ typed_row = EmptyRow
  /\ row_valid = TRUE
  /\ StageIdle /\ RefIdle /\ RunIdle /\ LoadIdle
  /\ TwiceIdle
  /\ GenIdle

SpecBool == InitBool /\ [][NextSchema]_vars

\* --------------------------- validate_subscriptions_logic, one row at a time
\* the typed subscriptions rows tried: every order of start and end date, the
\* end date absent; the line numbers are those the schema stage would give
SubsTypedRows ==
  {[subscription_id |-> 1, customer_id |-> 1, plan_id |-> 1, start_date |-> s,
    end_date |-> e, auto_renew |-> TRUE] :
     s \in {20240101, 20240615, 20241231},
     e \in {NoneDate, 20240101, 20240615, 20241231}}

\* a typed row with its line number
WithLine(row, n) == row @@ ("_line" :> n)

\* rs is a sequence of at most n of the typed rows, numbered from line 2
IsStageInput(rs, typed, n) ==
  \E m \in 0..n : \E f \in [1..m -> typed] :
    rs = [k \in 1..m |-> WithLine(f[k], k + 1)]

LRow ==
  /\ vpc = "subs_rows"
  /\ idx < Len(rows)
  /\ LET acc == SubsStep([valid |-> valid, invalid |-> invalid, log |-> log],
                         rows[idx + 1])
     IN /\ valid' = acc.valid
        /\ invalid' = acc.invalid
        /\ log' = acc.log
  /\ idx' = idx + 1
  /\ UNCHANGED <<files, raised, rows, vpc, errors>>
  /\ UNCHANGED <<schemaVars, refVars, runVars, loadVars>>
  /\ UNCHANGED twiceVars
  /\ UNCHANGED genVars

LReturn ==
  /\ vpc = "subs_rows"
  /\ idx = Len(rows)
  /\ log' = Append(log, log_complete("subscriptions",
                          "logical validation complete", Len(valid), invalid))
  /\ vpc' = "returned"
  /\ UNCHANGED <<files, raised, rows, idx, valid, invalid, errors>>
  /\ UNCHANGED <<schemaVars, refVars, runVars, loadVars>>
  /\ UNCHANGED twiceVars
  /\ UNCHANGED genVars

InitSubs ==
  /\ files = NoFiles /\ log = << >> /\ raised = NoExc
  /\ SchemaIdle /\ RefIdle /\ RunIdle /\ LoadIdle
  /\ IsStageInput(rows, SubsTypedRows, StageRows)
  /\ vpc = "subs_rows" /\ idx = 0 /\ valid = << >> /\ invalid = 0
  /\ errors = << >>
  /\ TwiceIdle
  /\ GenIdle

NextSubs == LRow \/ LReturn

SpecSubs == InitSubs /\ [][NextSubs]_vars

\* ----------------------------------- validate_usage_rules, one row at a time
\* the typed usage rows tried: a known and an unknown customer and content,
\* a watched duration equal to and above the content's, and completion rates
\* below, on and above both ends of the range, and NaN
UsageTypedRows ==
  {[usage_id |-> 1, customer_id |-> c, content_id |-> t,
    timestamp |-> <<20240101, 1000>>, duration_watched |-> w,
    completion_rate |-> r] :
     c \in {1, 2}, t \in {1, 2}, w \in {2, 3},
     r \in {Float(-1), Float(0), Float(10), Float(15), NaN}}

URow ==
  /\ vpc = "usage_rows"
  /\ idx < Len(rows)
  /\ LET acc == UsageStep([valid |-> valid, invalid |-> invalid, log |-> log],
                          rows[idx + 1], customer_ids, content_duration)
     IN /\ valid' = acc.valid
        /\ invalid' = acc.invalid
        /\ log' = acc.log
  /\ errors' = UsageErrors(rows[idx + 1], customer_ids, content_duration)
  /\ idx' = idx + 1
  /\ UNCHANGED <<files, raised, rows, vpc>>
  /\ UNCHANGED <<schemaVars, refVars, runVars, loadVars>>
  /\ UNCHANGED twiceVars
  /\ UNCHANGED genVars

UReturn ==
  /\ vpc = "usage_rows"
  /\ idx = Len(rows)
  /\ log' = Append(log, log_complete("usage_logs",
                          "referential/logical validation complete",
                          Len(valid), invalid))
  /\ vpc' = "returned"
  /\ UNCHANGED <<files, raised, rows, idx, valid, invalid, errors>>
  /\ UNCHANGED <<schemaVars, refVars, runVars, loadVars>>
  /\ UNCHANGED twiceVars
  /\ UNCHANGED genVars

InitUsage ==
  /\ files = NoFiles /\ log = << >> /\ raised = NoExc
  /\ SchemaIdle /\ RunIdle /\ LoadIdle
  /\ customer_ids \in {{}, {1}}
  /\ content_duration = (1 :> 2)
  /\ IsStageInput(rows, UsageTypedRows, StageRows)
  /\ vpc = "usage_rows" /\ idx = 0 /\ valid = << >> /\ invalid = 0
  /\ errors = << >>
  /\ TwiceIdle
  /\ GenIdle

NextUsage == URow \/ UReturn

SpecUsage == InitUsage /\ [][NextUsage]_vars

\* ----------------------------------------------------------- run_validations
\* the lines the files of a whole run are made of: for every dataset a row
\* that passes every stage and rows that fail one; the second customer fails
\* its schema stage and is referenced by the second usage row
RunLines(ds) ==
  CASE ds = "customers" ->
         {<<"1", "Ann", "a@x", "2024-01-01", "mobile", "India">>,
          <<"2", "Bob", "b@x", "", "tablet", "Canada">>}
    [] ds = "plans" -> {<<"1", "Basic", "8.5">>}
    [] ds = "content" ->
         {<<"1", "T", "movie", "2">>, <<"2", "U", "music", "long">>}
    [] ds = "subscriptions" ->
         {<<"1", "1", "1", "2024-01-01", "2024-12-31", "True">>,
          <<"2", "3", "3", "2024-12-31", "2024-01-01", "yes">>,
          <<"3", "1", "1", "2024-06-15", "", "maybe">>}
    [] ds = "usage_logs" ->
         {<<"1", "1", "1", "2024-01-01T10:00:00", "2", "0.5">>,
          <<"2", "2", "1", "2024-01-01T10:00:00", "3", "1.5">>,
          <<"3", "1", "1", "", "2", "0.5">>}

\* {row["customer_id"] for row in customers}
CustomerIds(rs) == {rs[i]["customer_id"] : i \in 1..Len(rs)}

\* (variant) of the rows with the same content_id the first one wins
ContentDuration_FirstWins(rs) ==
  [id \in {rs[i]["content_id"] : i \in 1..Len(rs)} |->
     LET head == CHOOSE i \in 1..Len(rs) :
                   /\ rs[i]["content_id"] = id
                   /\ \A j \in 1..(i - 1) : rs[j]["content_id"] # id
     IN rs[head]["duration_minutes"]]

\* {row["content_id"]: row["duration_minutes"] for row in content}: of the
\* rows with the same content_id the last one wins
ContentDuration(rs) ==
  [id \in {rs[i]["content_id"] : i \in 1..Len(rs)} |->
     LET last == CHOOSE i \in 1..Len(rs) :
                   /\ rs[i]["content_id"] = id
                   /\ \A j \in (i + 1)..Len(rs) : rs[j]["content_id"] # id
     IN rs[last]["duration_minutes"]]

Stats(valid_count, invalid_total) ==
  [valid |-> valid_count, invalid |-> invalid_total]

\* In the actions below r is the outcome of the call the statement makes.

\* the exception of a callee leaves run_validations: nothing catches it
Propagate(r) ==
  /\ raised' = r.raised
  /\ pc' = "raised"
  /\ log' = log \o r.log

RCustomers ==
  /\ pc = "customers"
  /\ \E r \in {load_and_validate_schema("customers", files["customers"])} :
     IF r.raised # NoExc
       THEN /\ Propagate(r)
            /\ UNCHANGED <<customers, cust_invalid, summary>>
       ELSE /\ customers' = r.valid_rows
            /\ cust_invalid' = r.invalid_count
            /\ summary' = summary @@
                 ("customers" :> Stats(Len(r.valid_rows), r.invalid_count))
            /\ log' = log \o r.log
            /\ pc' = "plans"
            /\ UNCHANGED raised
  /\ UNCHANGED <<files, plans, plans_invalid, content, content_invalid,
                 subscriptions, subs_invalid, subs_logic_invalid, usage_logs,
                 usage_invalid, usage_logic_invalid>>
  /\ UNCHANGED <<schemaVars, stageVars, refVars, loadVars>>
  /\ UNCHANGED twiceVars
  /\ UNCHANGED genVars

RPlans ==
  /\ pc = "plans"
  /\ \E r \in {load_and_validate_schema("plans", files["plans"])} :
     IF r.raised # NoExc
       THEN /\ Propagate(r)
            /\ UNCHANGED <<plans, plans_invalid, summary>>
       ELSE /\ plans' = r.valid_rows
            /\ plans_invalid' = r.invalid_count
            /\ summary' = summary @@
                 ("plans" :> Stats(Len(r.valid_rows), r.invalid_count))
            /\ log' = log \o r.log
            /\ pc' = "content"
            /\ UNCHANGED raised
  /\ UNCHANGED <<files, customers, cust_invalid, content, content_invalid,
                 subscriptions, subs_invalid, subs_logic_invalid, usage_logs,
                 usage_invalid, usage_logic_invalid>>
  /\ UNCHANGED <<schemaVars, stageVars, refVars, loadVars>>
  /\ UNCHANGED twiceVars
  /\ UNCHANGED genVars

\* (variant) the content file is not validated at this point of the run
RContent_Skipped ==
  /\ pc = "content"
  /\ summary' = summary @@ ("content" :> Stats(0, 0))
  /\ pc' = "subscriptions"
  /\ UNCHANGED <<files, log, raised, customers, cust_invalid, plans,
                 plans_invalid, content, content_invalid, subscriptions,
                 subs_invalid, subs_logic_invalid, usage_logs, usage_invalid,
                 usage_logic_invalid>>
  /\ UNCHANGED <<schemaVars, stageVars, refVars, loadVars>>
  /\ UNCHANGED twiceVars
  /\ UNCHANGED genVars

\* content, content_invalid = load_and_validate_schema("content")
RContent ==
  /\ pc = "content"
  /\ \E r \in {load_and_validate_schema("content", files["content"])} :
     IF r.raised # NoExc
       THEN /\ Propagate(r)
            /\ UNCHANGED <<content, content_invalid, summary>>
       ELSE /\ content' = r.valid_rows
            /\ content_invalid' = r.invalid_count
            /\ summary' = summary @@
                 ("content" :> Stats(Len(r.valid_rows), r.invalid_count))
            /\ log' = log \o r.log
            /\ pc' = "subscriptions"
            /\ UNCHANGED raised
  /\ UNCHANGED <<files, customers, cust_invalid, plans, plans_invalid,
                 subscriptions, subs_invalid, subs_logic_invalid, usage_logs,
                 usage_invalid, usage_logic_invalid>>
  /\ UNCHANGED <<schemaVars, stageVars, refVars, loadVars>>
  /\ UNCHANGED twiceVars
  /\ UNCHANGED genVars

RSubscriptions ==
  /\ pc = "subscriptions"
  /\ \E r \in {load_and_validate_schema("subscriptions", files["subscriptions"])} :
     IF r.raised # NoExc
       THEN /\ Propagate(r)
            /\ UNCHANGED <<subscriptions, subs_invalid>>
       ELSE /\ subscriptions' = r.valid_rows
            /\ subs_invalid' = r.invalid_count
            /\ log' = log \o r.log
            /\ pc' = "subscriptions_logic"
            /\ UNCHANGED raised
  /\ UNCHANGED <<files, customers, cust_invalid, plans, plans_invalid, content,
                 content_invalid, subs_logic_invalid, usage_logs,
                 usage_invalid, usage_logic_invalid, summary>>
  /\ UNCHANGED <<schemaVars, stageVars, refVars, loadVars>>
  /\ UNCHANGED twiceVars
  /\ UNCHANGED genVars

\* (variant) a subscriptions row also has to refer to a validated customer
\* and a validated plan
RSubscriptionsLogic_Referential ==
  /\ pc = "subscriptions_logic"
  /\ \E r \in {validate_subscriptions_logic(
                  SelectSeq(subscriptions,
                    LAMBDA row :
                      /\ \E c \in Range(customers) :
                           c["customer_id"] = row["customer_id"]
                      /\ \E p \in Range(plans) :
                           p["plan_id"] = row["plan_id"]))} :
     /\ subscriptions' = r.valid
     /\ subs_logic_invalid' = Len(subscriptions) - Len(r.valid)
     /\ summary' = summary @@
          ("subscriptions" :>
             Stats(Len(r.valid),
                   subs_invalid + Len(subscriptions) - Len(r.valid)))
     /\ log' = log \o r.log
  /\ pc' = "usage_logs"
  /\ UNCHANGED <<files, raised, customers, cust_invalid, plans, plans_invalid,
                 content, content_invalid, subs_invalid, usage_logs,
                 usage_invalid, usage_logic_invalid>>
  /\ UNCHANGED <<schemaVars, stageVars, refVars, loadVars>>
  /\ UNCHANGED twiceVars
  /\ UNCHANGED genVars

\* (variant) the summary's valid count is the number of rows the schema stage
\* returned, the ones the date-order check rejects included
RSubscriptionsLogic_StaleCount ==
  /\ pc = "subscriptions_logic"
  /\ \E r \in {validate_subscriptions_logic(subscriptions)} :
     /\ subscriptions' = r.valid
     /\ subs_logic_invalid' = r.invalid
     /\ summary' = summary @@
          ("subscriptions" :>
             Stats(Len(subscriptions), subs_invalid + r.invalid))
     /\ log' = log \o r.log
  /\ pc' = "usage_logs"
  /\ UNCHANGED <<files, raised, customers, cust_invalid, plans, plans_invalid,
                 content, content_invalid, subs_invalid, usage_logs,
                 usage_invalid, usage_logic_invalid>>
  /\ UNCHANGED <<schemaVars, stageVars, refVars, loadVars>>
  /\ UNCHANGED twiceVars
  /\ UNCHANGED genVars

\* subscriptions, subs_logic_invalid = validate_subscriptions_logic(...)
RSubscriptionsLogic ==
  /\ pc = "subscriptions_logic"
  /\ \E r \in {validate_subscriptions_logic(subscriptions)} :
     /\ subscriptions' = r.valid
     /\ subs_logic_invalid' = r.invalid
     /\ summary' = summary @@
          ("subscriptions" :> Stats(Len(r.valid), subs_invalid + r.invalid))
     /\ log' = log \o r.log
  /\ pc' = "usage_logs"
  /\ UNCHANGED <<files, raised, customers, cust_invalid, plans, plans_invalid,
                 content, content_invalid, subs_invalid, usage_logs,
                 usage_invalid, usage_logic_invalid>>
  /\ UNCHANGED <<schemaVars, stageVars, refVars, loadVars>>
  /\ UNCHANGED twiceVars
  /\ UNCHANGED genVars

\* (variant) the usage file is rewritten with the lines of its valid rows
RUsageLogs_WritesBack ==
  /\ pc = "usage_logs"
  /\ \E r \in {load_and_validate_schema("usage_logs", files["usage_logs"])} :
     IF r.raised # NoExc
       THEN /\ Propagate(r)
            /\ UNCHANGED <<files, usage_logs, usage_invalid>>
       ELSE /\ usage_logs' = r.valid_rows
            /\ usage_invalid' = r.invalid_count
            /\ log' = log \o r.log
            /\ pc' = "lookups"
            /\ files' =
                 [files EXCEPT !["usage_logs"].lines =
                    <<SCHEMA_CONFIG.usage_logs.columns>> \o
                    [i \in 1..Len(r.valid_rows) |->
                       DataRows(files["usage_logs"])[r.valid_rows[i]["_line"] - 1]]]
            /\ UNCHANGED raised
  /\ UNCHANGED <<customers, cust_invalid, plans, plans_invalid, content,
                 content_invalid, subscriptions, subs_invalid,
                 subs_logic_invalid, usage_logic_invalid, summary>>
  /\ UNCHANGED <<schemaVars, stageVars, refVars, loadVars>>
  /\ UNCHANGED twiceVars
  /\ UNCHANGED genVars

\* usage_logs, usage_invalid = load_and_validate_schema("usage_logs")
RUsageLogs ==
  /\ pc = "usage_logs"
  /\ \E r \in {load_and_validate_schema("usage_logs", files["usage_logs"])} :
     IF r.raised # NoExc
       THEN /\ Propagate(r)
            /\ UNCHANGED <<usage_logs, usage_invalid>>
       ELSE /\ usage_logs' = r.valid_rows
            /\ usage_invalid' = r.invalid_count
            /\ log' = log \o r.log
            /\ pc' = "lookups"
            /\ UNCHANGED raised
  /\ UNCHANGED <<files, customers, cust_invalid, plans, plans_invalid, content,
                 content_invalid, subscriptions, subs_invalid,
                 subs_logic_invalid, usage_logic_invalid, summary>>
  /\ UNCHANGED <<schemaVars, stageVars, refVars, loadVars>>
  /\ UNCHANGED twiceVars
  /\ UNCHANGED genVars

\* (variant) the known customers are taken from the customers file, the
\* rows the schema stage rejected included
RLookups_RawRows ==
  /\ pc = "lookups"
  /\ customer_ids' =
       {parse_int(l[1]).val :
          l \in {m \in Range(DataRows(files["customers"])) : parse_int(m[1]).ok}}
  /\ content_duration' = ContentDuration(content)
  /\ pc' = "usage_rules"
  /\ UNCHANGED <<customers, cust_invalid, plans, plans_invalid, content,
                 content_invalid, subscriptions, subs_invalid,
                 subs_logic_invalid, usage_logs, usage_invalid,
                 usage_logic_invalid, summary>>
  /\ UNCHANGED <<commonVars, schemaVars, stageVars, loadVars>>
  /\ UNCHANGED twiceVars
  /\ UNCHANGED genVars

\* customer_ids = {...}; content_duration = {...}
RLookups ==
  /\ pc = "lookups"
  /\ customer_ids' = CustomerIds(customers)
  /\ content_duration' = ContentDuration(content)
  /\ pc' = "usage_rules"
  /\ UNCHANGED <<customers, cust_invalid, plans, plans_invalid, content,
                 content_invalid, subscriptions, subs_invalid,
                 subs_logic_invalid, usage_logs, usage_invalid,
                 usage_logic_invalid, summary>>
  /\ UNCHANGED <<commonVars, schemaVars, stageVars, loadVars>>
  /\ UNCHANGED twiceVars
  /\ UNCHANGED genVars

\* (variant) the second-stage count takes in the rows the schema stage
\* rejected
RUsageRules_Recount ==
  /\ pc = "usage_rules"
  /\ \E r \in {validate_usage_rules(usage_logs, customer_ids, content_duration)} :
     /\ usage_logs' = r.valid
     /\ usage_logic_invalid' = r.invalid + usage_invalid
     /\ summary' = summary @@
          ("usage_logs" :>
             Stats(Len(r.valid), usage_invalid + r.invalid + usage_invalid))
     /\ log' = log \o r.log
  /\ pc' = "summary"
  /\ UNCHANGED <<files, raised, customers, cust_invalid, plans, plans_invalid,
                 content, content_invalid, subscriptions, subs_invalid,
                 subs_logic_invalid, usage_invalid>>
  /\ UNCHANGED <<schemaVars, stageVars, refVars, loadVars>>
  /\ UNCHANGED twiceVars
  /\ UNCHANGED genVars

\* usage_logs, usage_logic_invalid = validate_usage_rules(...) and the
\* summary entry of usage_logs
RUsageRules ==
  /\ pc = "usage_rules"
  /\ \E r \in {validate_usage_rules(usage_logs, customer_ids, content_duration)} :
     /\ usage_logs' = r.valid
     /\ usage_logic_invalid' = r.invalid
     /\ summary' = summary @@
          ("usage_logs" :> Stats(Len(r.valid), usage_invalid + r.invalid))
     /\ log' = log \o r.log
  /\ pc' = "summary"
  /\ UNCHANGED <<files, raised, customers, cust_invalid, plans, plans_invalid,
                 content, content_invalid, subscriptions, subs_invalid,
                 subs_logic_invalid, usage_invalid>>
  /\ UNCHANGED <<schemaVars, stageVars, refVars, loadVars>>
  /\ UNCHANGED twiceVars
  /\ UNCHANGED genVars

\* the summary lines, one per dataset in the order the entries were made
SummaryLines ==
  [i \in 1..Len(Datasets) |->
     LogEntry("INFO", Datasets[i], 0, "summary", "",
              summary[Datasets[i]].valid, summary[Datasets[i]].invalid)]

RSummary ==
  /\ pc = "summary"
  /\ log' = Append(log, LogEntry("INFO", "", 0, "validation summary", "", 0, 0))
              \o SummaryLines
  /\ pc' = "done"
  /\ UNCHANGED <<files, raised, customers, cust_invalid, plans, plans_invalid,
                 content, content_invalid, subscriptions, subs_invalid,
                 subs_logic_invalid, usage_logs, usage_invalid,
                 usage_logic_invalid, summary>>
  /\ UNCHANGED <<schemaVars, stageVars, refVars, loadVars>>
  /\ UNCHANGED twiceVars
  /\ UNCHANGED genVars

\* the files of a dataset in a whole run: no file, a file without any line,
\* a file whose header has the first two columns swapped, or the declared
\* header followed by at most RunRows of the run's lines
RunFilesOf(ds) ==
  LET e == SCHEMA_CONFIG[ds].columns IN
  {NoFile, FileWith("empty", e, << >>),
   FileWith("lines", [e EXCEPT ![1] = e[2], ![2] = e[1]], << >>)}
  \cup UNION {{FileWith("lines", e, b) : b \in [1..k -> RunLines(ds)]} :
               k \in 0..RunRows}

RunFiles ==
  \E fc \in RunFilesOf("customers"), fp \in RunFilesOf("plans"),
     ft \in RunFilesOf("content"), fs \in RunFilesOf("subscriptions"),
     fu \in RunFilesOf("usage_logs") :
    files = [customers |-> fc, plans |-> fp, content |-> ft,
             subscriptions |-> fs, usage_logs |-> fu]

\* run_validations is entered: nothing logged, summary = {}
RunStart ==
  /\ log = << >> /\ raised = NoExc
  /\ SchemaIdle /\ StageIdle /\ RefIdle /\ LoadIdle
  /\ pc = "customers" /\ summary = NoDict
  /\ customers = << >> /\ cust_invalid = 0
  /\ plans = << >> /\ plans_invalid = 0
  /\ content = << >> /\ content_invalid = 0
  /\ subscriptions = << >> /\ subs_invalid = 0 /\ subs_logic_invalid = 0
  /\ usage_logs = << >> /\ usage_invalid = 0 /\ usage_logic_invalid = 0
  /\ TwiceIdle
  /\ GenIdle

Init == RunFiles /\ RunStart

Next ==
  \/ RCustomers \/ RPlans \/ RContent \/ RSubscriptions \/ RSubscriptionsLogic
  \/ RUsageLogs \/ RLookups \/ RUsageRules \/ RSummary

Spec == Init /\ [][Next]_vars

\* a plans line that fails to parse
InvalidPlanLine == <<"x", "Pro", "free">>

\* the runs whose five files all have the declared header and one data row,
\* any of the run's lines, so that the rows of all five may be invalid at once
InitFair ==
  /\ \E lc \in RunLines("customers"),
        lp \in RunLines("plans") \cup {InvalidPlanLine},
        lt \in RunLines("content"), ls \in RunLines("subscriptions"),
        lu \in RunLines("usage_logs") :
       files = [customers |-> FileWith("lines", SCHEMA_CONFIG.customers.columns, <<lc>>),
                plans |-> FileWith("lines", SCHEMA_CONFIG.plans.columns, <<lp>>),
                content |-> FileWith("lines", SCHEMA_CONFIG.content.columns, <<lt>>),
                subscriptions |->
                  FileWith("lines", SCHEMA_CONFIG.subscriptions.columns, <<ls>>),
                usage_logs |->
                  FileWith("lines", SCHEMA_CONFIG.usage_logs.columns, <<lu>>)]
  /\ RunStart

\* run_validations is straight-line sequential code on one thread: once a
\* statement has returned the next one is executed
SpecFair == InitFair /\ [][Next]_vars /\ WF_vars(Next)

\* ------------------------------- runs whose usage rows refer to other rows
\* the lines of such a run: content rows that share content_id 1 with
\* different durations and one that fails to parse; subscriptions rows whose
\* customer and plan exist nowhere, one of them ending before it starts;
\* usage rows that refer to customer 1 or 2
\* and content 1 or 2 and watched 2 or 3 minutes
RefLines(ds) ==
  CASE ds = "customers" -> RunLines("customers")
    [] ds = "plans" -> {<<"1", "Basic", "8.5">>}
    [] ds = "content" ->
         {<<"1", "T", "movie", "2">>, <<"1", "T2", "movie", "3">>,
          <<"2", "U", "music", "long">>}
    [] ds = "subscriptions" ->
         {<<"1", "1", "1", "2024-01-01", "2024-12-31", "True">>,
          <<"2", "3", "3", "2024-01-01", "", "no">>,
          <<"3", "3", "3", "2024-12-31", "2024-01-01", "yes">>}
    [] ds = "usage_logs" ->
         {<<"1", c, t, "2024-01-01T10:00:00", w, "0.5">> :
            c \in {"1", "2"}, t \in {"1", "2"}, w \in {"2", "3"}}

\* the declared header of the dataset followed by at most n of those lines
RefFilesOf(ds, n) ==
  UNION {{FileWith("lines", SCHEMA_CONFIG[ds].columns, b) :
            b \in [1..k -> RefLines(ds)]} : k \in 0..n}

InitRef ==
  /\ \E fc \in RefFilesOf("customers", RefRows), fp \in RefFilesOf("plans", 1),
        ft \in RefFilesOf("content", RefRows),
        fs \in RefFilesOf("subscriptions", 1),
        fu \in RefFilesOf("usage_logs", 1) :
       files = [customers |-> fc, plans |-> fp, content |-> ft,
                subscriptions |-> fs, usage_logs |-> fu]
  /\ RunStart

SpecRef == InitRef /\ [][Next]_vars

\* ------------------------------------------------ the validation run twice
\* what a run leaves: the error it ended with, the typed rows of every
\* dataset in order, the counts and the summary
Outcome ==
  [raised |-> raised, customers |-> customers, cust_invalid |-> cust_invalid,
   plans |-> plans, plans_invalid |-> plans_invalid, content |-> content,
   content_invalid |-> content_invalid, subscriptions |-> subscriptions,
   subs_invalid |-> subs_invalid, subs_logic_invalid |-> subs_logic_invalid,
   usage_logs |-> usage_logs, usage_invalid |-> usage_invalid,
   usage_logic_invalid |-> usage_logic_invalid, summary |-> summary,
   ended |-> pc]

\* main is run again on the files as the first run left them:
\* run_validations starts over with summary = {} and unbound locals, the
\* lines logged so far stay in the log
RAgain ==
  /\ run = 1 /\ pc \in {"done", "raised"}
  /\ first' = Outcome
  /\ run' = 2
  /\ raised' = NoExc
  /\ pc' = "customers" /\ summary' = NoDict
  /\ customers' = << >> /\ cust_invalid' = 0
  /\ plans' = << >> /\ plans_invalid' = 0
  /\ content' = << >> /\ content_invalid' = 0
  /\ subscriptions' = << >> /\ subs_invalid' = 0 /\ subs_logic_invalid' = 0
  /\ usage_logs' = << >> /\ usage_invalid' = 0 /\ usage_logic_invalid' = 0
  /\ customer_ids' = {} /\ content_duration' = NoDict
  /\ UNCHANGED <<files, log, schemaVars, stageVars, loadVars>>
  /\ UNCHANGED genVars

\* the files of a dataset in a run that is repeated: no file, the declared
\* header alone, or the declared header and one of the run's lines
TwiceFilesOf(ds) ==
  {NoFile, FileWith("lines", SCHEMA_CONFIG[ds].columns, << >>)}
  \cup {FileWith("lines", SCHEMA_CONFIG[ds].columns, <<l>>) : l \in RunLines(ds)}

InitTwice ==
  /\ \E fc \in TwiceFilesOf("customers"), fp \in TwiceFilesOf("plans"),
        ft \in TwiceFilesOf("content"), fs \in TwiceFilesOf("subscriptions"),
        fu \in TwiceFilesOf("usage_logs") :
       files = [customers |-> fc, plans |-> fp, content |-> ft,
                subscriptions |-> fs, usage_logs |-> fu]
  /\ RunStart

NextTwice == Next \/ RAgain

SpecTwice == InitTwice /\ [][NextTwice]_vars

\* ------------------- a dataset through both of its stages, row by row
\* run_validations on subscriptions (271-272) and on usage_logs (278-285):
\* the rows load_and_validate_schema returned are the argument of the
\* second-stage validator; the lookups are those of a run with customer 1
\* and content 1 of duration 2
PHandOff ==
  /\ spc = "returned" /\ vpc = "idle"
  /\ rows' = valid_rows
  /\ vpc' = IF dataset = "subscriptions" THEN "subs_rows" ELSE "usage_rows"
  /\ idx' = 0 /\ valid' = << >> /\ invalid' = 0 /\ errors' = << >>
  /\ UNCHANGED <<commonVars, schemaVars, refVars, runVars, loadVars>>
  /\ UNCHANGED twiceVars
  /\ UNCHANGED genVars

\* the file has the declared header and at most PipeRows lines after it,
\* each one of the run's lines or a blank line
InitPipe ==
  /\ dataset \in {"subscriptions", "usage_logs"}
  /\ \E k \in 0..PipeRows : \E b \in [1..k -> RunLines(dataset) \cup {<< >>}] :
       files = [d \in DatasetNames |->
                  IF d = dataset
                    THEN FileWith("lines", SCHEMA_CONFIG[dataset].columns, b)
                    ELSE NoFile]
  /\ log = << >> /\ raised = NoExc
  /\ spc = "open" /\ reader = 0 /\ line_number = 0
  /\ valid_rows = << >> /\ invalid_count = 0 /\ typed_row = EmptyRow
  /\ row_valid = TRUE
  /\ StageIdle /\ RunIdle /\ LoadIdle
  /\ IF dataset = "usage_logs"
       THEN customer_ids = {1} /\ content_duration = (1 :> 2)
       ELSE RefIdle
  /\ TwiceIdle
  /\ GenIdle

NextPipe ==
  SOpen \/ SRow \/ SReturn \/ PHandOff \/ LRow \/ LReturn \/ URow \/ UReturn

SpecPipe == InitPipe /\ [][NextPipe]_vars

\* ------------------------------------------------------------------ load_db
\* the column a transformer calls int() on, float() on, or passes through
IntColumns(table) ==
  CASE table = "customers" -> {"customer_id"}
    [] table = "plans" -> {"plan_id"}
    [] table = "content" -> {"content_id", "duration_minutes"}
    [] table = "subscriptions" -> {"subscription_id", "customer_id", "plan_id"}
    [] table = "usage_logs" ->
         {"usage_id", "customer_id", "content_id", "duration_watched"}

FloatColumns(table) ==
  CASE table = "plans" -> {"price"}
    [] table = "usage_logs" -> {"completion_rate"}
    [] OTHER -> {}

\* the columns of the table declared without NOT NULL
Nullable(table) == IF table = "subscriptions" THEN {"end_date"} ELSE {}

\* the foreign keys of the table: column -> referenced table
ForeignKeys(table) ==
  CASE table = "subscriptions" ->
         [customer_id |-> "customers", plan_id |-> "plans"]
    [] table = "usage_logs" ->
         [customer_id |-> "customers", content_id |-> "content"]
    [] OTHER -> NoDict

\* the INTEGER PRIMARY KEY column: the first one of every table
PrimaryKey(table) == SCHEMA_CONFIG[table].columns[1]

\* one element of the tuple a transformer builds, for the column col of the
\* dict r the reader made of the line under the file's own header
TransformValue(table, fieldnames, line, col) ==
  IF IndexOf(fieldnames, col) = 0 THEN Fail("KeyError")
  ELSE
    LET value == RowValue(fieldnames, line, col) IN
    IF col \in IntColumns(table) THEN parse_int(value)
    ELSE IF col \in FloatColumns(table) THEN parse_float(value)
    ELSE IF col = "end_date" THEN Ok(IF Falsy(value) THEN None ELSE value)
    ELSE IF col = "auto_renew"
      THEN IF value = None THEN Fail("AttributeError")
           ELSE Ok(IF Lower(value) \in {"true", "1"} THEN 1 ELSE 0)
    ELSE Ok(value)

\* transformer(row): the tuple as a function of the column, or the first
\* exception an element raises
TransformRow(table, fieldnames, line) ==
  LET cols == SCHEMA_CONFIG[table].columns
      failing == {i \in 1..Len(cols) :
                    ~TransformValue(table, fieldnames, line, cols[i]).ok}
  IN IF failing = {}
       THEN Ok([c \in Range(cols) |->
                  TransformValue(table, fieldnames, line, c).val])
       ELSE Fail(TransformValue(table, fieldnames, line,
                   cols[CHOOSE i \in failing : \A j \in failing : i <= j]).exc)

\* what the reader of read_csv_rows yields: nothing for a file without lines
LoaderRows(file) == DataRows(file)

\* the columns a transformer passes the text of through (end_date included)
TextColumns(table) ==
  Range(SCHEMA_CONFIG[table].columns)
    \ (IntColumns(table) \cup FloatColumns(table) \cup {"auto_renew"})

\* the value SQLite stores in the column is NULL: None in a text column, and
\* a NaN bound to a REAL column
IsNull(table, row, c) ==
  \/ c \in TextColumns(table) /\ row[c] = None
  \/ c \in FloatColumns(table) /\ row[c] = NaN

\* the constraint the INSERT of the rows into the emptied table violates, or
\* "none"; tables is the database as the open transaction sees it
InsertViolation(table, rs, tables) ==
  LET cols == SCHEMA_CONFIG[table].columns
      pk == PrimaryKey(table)
      fks == ForeignKeys(table)
  IN
  IF \E i \in 1..Len(rs) : \E c \in Range(cols) \ Nullable(table) :
       IsNull(table, rs[i], c)
    THEN "NOT NULL"
  ELSE IF \E i, j \in 1..Len(rs) : i # j /\ rs[i][pk] = rs[j][pk]
    THEN "UNIQUE"
  ELSE IF \E i \in 1..Len(rs) : \E c \in DOMAIN fks :
            \A j \in 1..Len(tables[fks[c]]) :
               tables[fks[c]][j][PrimaryKey(fks[c])] # rs[i][c]
    THEN "FOREIGN KEY"
  ELSE "none"

\* DELETE FROM table fails when a row of another table references a row of it
DeleteViolation(table, tables) ==
  IF /\ tables[table] # << >>
     /\ \E t \in DatasetNames : \E c \in DOMAIN ForeignKeys(t) :
          ForeignKeys(t)[c] = table /\ tables[t] # << >>
    THEN "FOREIGN KEY" ELSE "none"

\* (variant) the table is not emptied first: the rows of the file are added
\* to the rows it holds
ingest_table_Appends(table, file, tables) ==
  LET fieldnames == IF HasHeader(file) THEN Fieldnames(file) ELSE << >>
      lines == LoaderRows(file)
      out == [i \in 1..Len(lines) |-> TransformRow(table, fieldnames, lines[i])]
      bad == {i \in 1..Len(lines) : ~out[i].ok}
      tuples == tables[table] \o [i \in 1..Len(lines) |-> out[i].val]
  IN
  IF ~file.exists
    THEN [raised |-> Exc("FileNotFoundError", "Required source CSV missing"),
          rows |-> tables[table]]
  ELSE IF bad # {}
    THEN [raised |-> Exc(out[CHOOSE i \in bad : \A j \in bad : i <= j].exc,
                         "transformer"),
          rows |-> tables[table]]
  ELSE IF InsertViolation(table, tuples, tables) # "none"
    THEN [raised |-> Exc("IntegrityError",
                         InsertViolation(table, tuples, tables)),
          rows |-> tables[table]]
  ELSE [raised |-> NoExc, rows |-> tuples]

\* ingest_table(conn, table, csv_path, columns, transformer): the exception
\* raised (NoExc on return) and the committed rows of the table afterwards.
\* Without the commit the connection is closed with the transaction open and
\* the table keeps its committed rows.
ingest_table(table, file, tables) ==
  LET fieldnames == IF HasHeader(file) THEN Fieldnames(file) ELSE << >>
      lines == LoaderRows(file)
      out == [i \in 1..Len(lines) |-> TransformRow(table, fieldnames, lines[i])]
      bad == {i \in 1..Len(lines) : ~out[i].ok}
      tuples == [i \in 1..Len(lines) |-> out[i].val]
  IN
  IF DeleteViolation(table, tables) # "none"
    THEN [raised |-> Exc("IntegrityError", DeleteViolation(table, tables)),
          rows |-> tables[table]]
  ELSE IF ~file.exists
    THEN [raised |-> Exc("FileNotFoundError", "Required source CSV missing"),
          rows |-> tables[table]]
  ELSE IF bad # {}
    THEN [raised |-> Exc(out[CHOOSE i \in bad : \A j \in bad : i <= j].exc,
                         "transformer"),
          rows |-> tables[table]]
  ELSE IF InsertViolation(table, tuples, tables) # "none"
    THEN [raised |-> Exc("IntegrityError",
                         InsertViolation(table, tuples, tables)),
          rows |-> tables[table]]
  ELSE [raised |-> NoExc, rows |-> tuples]

\* main up to load_all_tables: the database file is unlinked, a connection
\* opened with foreign keys on, and the five empty tables created
LCreateTables ==
  /\ lpc = "create_tables"
  /\ db' = [t \in DatasetNames |-> << >>]
  /\ table_i' = 1
  /\ lpc' = "load_all_tables"
  /\ UNCHANGED <<commonVars, schemaVars, stageVars, refVars, runVars, held>>
  /\ UNCHANGED twiceVars
  /\ UNCHANGED genVars

\* (variant) the tables that reference others come first in the list
configs_ChildrenFirst ==
  <<"subscriptions", "usage_logs", "customers", "plans", "content">>

\* the tables of configs in load_all_tables, in the order of the list
configs == <<"customers", "plans", "content", "subscriptions", "usage_logs">>

\* one iteration of `for config in configs`
LIngest ==
  /\ lpc = "load_all_tables"
  /\ table_i <= Len(configs)
  /\ \E r \in {ingest_table(configs[table_i], files[configs[table_i]], db)} :
       /\ db' = [db EXCEPT ![configs[table_i]] = r.rows]
       /\ raised' = r.raised
       /\ IF r.raised = NoExc
            THEN /\ table_i' = table_i + 1
                 /\ lpc' = lpc
                 /\ log' = Append(log,
                      LogEntry("INFO", configs[table_i], 0, "replaced", "",
                               Len(r.rows), 0))
            ELSE /\ table_i' = table_i
                 /\ lpc' = "close"
                 /\ log' = log
  /\ UNCHANGED <<files, held>>
  /\ UNCHANGED <<schemaVars, stageVars, refVars, runVars>>
  /\ UNCHANGED twiceVars
  /\ UNCHANGED genVars

\* load_all_tables returned: the completion line and the finally clause
LCompleted ==
  /\ lpc = "load_all_tables"
  /\ table_i > Len(configs)
  /\ log' = Append(log, LogEntry("INFO", "", 0,
                                 "ingestion completed successfully", "", 0, 0))
  /\ lpc' = "closed"
  /\ UNCHANGED <<files, raised, table_i, db, held>>
  /\ UNCHANGED <<schemaVars, stageVars, refVars, runVars>>
  /\ UNCHANGED twiceVars
  /\ UNCHANGED genVars

\* the finally clause after an exception: conn.close()
LClose ==
  /\ lpc = "close"
  /\ lpc' = "closed"
  /\ UNCHANGED <<commonVars, table_i, db, held>>
  /\ UNCHANGED <<schemaVars, stageVars, refVars, runVars>>
  /\ UNCHANGED twiceVars
  /\ UNCHANGED genVars

InitLoad ==
  /\ RunFiles
  /\ log = << >> /\ raised = NoExc
  /\ SchemaIdle /\ StageIdle /\ RefIdle /\ RunIdle
  /\ lpc = "create_tables" /\ table_i = 0
  /\ db = [t \in DatasetNames |-> << >>]
  /\ held = << >>
  /\ TwiceIdle
  /\ GenIdle

NextLoad == LCreateTables \/ LIngest \/ LCompleted \/ LClose

SpecLoad == InitLoad /\ [][NextLoad]_vars

\* ------------------------------------------- ingest_table called directly
\* the tuples the table's transformer makes of the run's lines
TableTuples(t) ==
  {TransformRow(t, SCHEMA_CONFIG[t].columns, l).val :
     l \in {m \in RunLines(t) :
              TransformRow(t, SCHEMA_CONFIG[t].columns, m).ok}}

\* the contents a table can hold: at most n such tuples
TableContents(t, n) == UNION {[1..k -> TableTuples(t)] : k \in 0..n}

\* the database satisfies the constraints create_tables declares
Consistent(tables) ==
  \A t \in DatasetNames : InsertViolation(t, tables[t], tables) = "none"

\* a caller (the test suite does so) creates the tables and calls
\* ingest_table on one table and its file, twice: the first call finds the
\* table as earlier loads of other versions of the files left it
LIngestTable ==
  /\ lpc \in {"ingest", "again"}
  /\ \E r \in {ingest_table(dataset, files[dataset], db)} :
       /\ db' = [db EXCEPT ![dataset] = r.rows]
       /\ raised' = r.raised
       /\ IF r.raised = NoExc
            THEN /\ lpc' = IF lpc = "ingest" THEN "again" ELSE "closed"
                 /\ log' = Append(log,
                      LogEntry("INFO", dataset, 0, "replaced", "",
                               Len(r.rows), 0))
            ELSE /\ lpc' = "close"
                 /\ log' = log
  /\ held' = IF lpc = "ingest" THEN db[dataset] ELSE held
  /\ UNCHANGED <<files, dataset, table_i>>
  /\ UNCHANGED <<schemaVars, stageVars, refVars, runVars>>
  /\ UNCHANGED twiceVars
  /\ UNCHANGED genVars

InitIngest ==
  /\ dataset \in DatasetNames
  /\ \E k \in 0..IngestRows : \E b \in [1..k -> RunLines(dataset)] :
       files = [d \in DatasetNames |->
                  IF d = dataset
                    THEN FileWith("lines", SCHEMA_CONFIG[dataset].columns, b)
                    ELSE NoFile]
  /\ \E c \in TableContents("customers", IngestRows),
        p \in TableContents("plans", IngestRows),
        t \in TableContents("content", IngestRows) :
     \E s \in TableContents("subscriptions", IngestRows),
        u \in TableContents("usage_logs", IngestRows) :
       /\ db = [customers |-> c, plans |-> p, content |-> t,
                subscriptions |-> s, usage_logs |-> u]
       /\ Consistent(db)
  /\ log = << >> /\ raised = NoExc
  /\ spc = "idle" /\ reader = 0 /\ line_number = 0
  /\ valid_rows = << >> /\ invalid_count = 0 /\ typed_row = EmptyRow
  /\ row_valid = TRUE
  /\ StageIdle /\ RefIdle /\ RunIdle
  /\ lpc = "ingest" /\ table_i = 0 /\ held = << >>
  /\ TwiceIdle
  /\ GenIdle

NextIngest == LIngestTable \/ LClose

SpecIngest == InitIngest /\ [][NextIngest]_vars

\* ------------------------------------- loads that differ in auto_renew only
\* the i-th subscriptions line of such a load: subscription i of customer 1
\* on plan 1, with the auto_renew text a
RenewLine(i, a) == <<<<"1", "2", "3">>[i], "1", "1", "2024-06-15", "", a>>

\* main on files with the declared headers: the customers file holds
\* customer 1 or no row, the plans file plan 1, the content and usage files
\* no row, the subscriptions file at most RenewRows lines
InitRenew ==
  /\ \E fc \in {FileWith("lines", SCHEMA_CONFIG["customers"].columns, b) :
                  b \in {<< >>,
                         <<<<"1", "Ann", "a@x", "2024-01-01", "mobile",
                             "Canada">>>>}} :
     \E k \in 0..RenewRows : \E b \in [1..k -> BoolTextSet] :
       files =
         [customers |-> fc,
          plans |-> FileWith("lines", SCHEMA_CONFIG["plans"].columns,
                             <<<<"1", "Basic", "8.5">>>>),
          content |-> FileWith("lines", SCHEMA_CONFIG["content"].columns,
                               << >>),
          subscriptions |->
            FileWith("lines", SCHEMA_CONFIG["subscriptions"].columns,
                     [i \in 1..k |-> RenewLine(i, b[i])]),
          usage_logs |-> FileWith("lines", SCHEMA_CONFIG["usage_logs"].columns,
                                  << >>)]
  /\ log = << >> /\ raised = NoExc
  /\ SchemaIdle /\ StageIdle /\ RefIdle /\ RunIdle
  /\ lpc = "create_tables" /\ table_i = 0
  /\ db = [t \in DatasetNames |-> << >>]
  /\ held = << >>
  /\ TwiceIdle
  /\ GenIdle

SpecRenew == InitRenew /\ [][NextLoad]_vars

\* --------------------------------------------------- generate_subscriptions
\* A date is the number of its day, 2023-01-01 being day 1; the text
\* yyyy-mm-dd is written as the triple of its three numbers and the empty
\* text as the empty tuple.
IsLeap(y) == y % 4 = 0 /\ (y % 100 # 0 \/ y % 400 = 0)
DaysInYear(y) == IF IsLeap(y) THEN 366 ELSE 365
DaysInMonth(y, m) ==
  CASE m \in {4, 6, 9, 11} -> 30
    [] m = 2 -> IF IsLeap(y) THEN 29 ELSE 28
    [] OTHER -> 31

\* date.isoformat(): the year, month and day of day n, counting from the
\* first day of month m of year y
RECURSIVE YearMonthDay(_, _, _)
YearMonthDay(n, y, m) ==
  IF m = 1 /\ n > DaysInYear(y) THEN YearMonthDay(n - DaysInYear(y), y + 1, 1)
  ELSE IF n > DaysInMonth(y, m)
    THEN YearMonthDay(n - DaysInMonth(y, m), y, m + 1)
  ELSE <<y, m, n>>

isoformat(n) == YearMonthDay(n, 2023, 1)

\* datetime.fromisoformat(text).date() as a day number
RECURSIVE DaysBefore(_, _)
DaysBefore(y, m) ==
  IF m > 1 THEN DaysInMonth(y, m - 1) + DaysBefore(y, m - 1)
  ELSE IF y > 2023 THEN DaysInYear(y - 1) + DaysBefore(y - 1, 1)
  ELSE 0

DayOf(text) == DaysBefore(text[1], text[2]) + text[3]

\* the calendar date the validator's parse_date makes of such a text, in the
\* encoding of the typed rows (yyyymmdd)
DateOfText(text) == text[1] * 10000 + text[2] * 100 + text[3]

MAX_LOOKBACK_DAYS == 548

\* the values random.randint(lo, hi) is let return: both ends, the values
\* next to them and the middle
RandInt(lo, hi) ==
  {v \in {lo, lo + 1, (lo + hi) \div 2, hi - 1, hi} : lo <= v /\ v <= hi}

Max(a, b) == IF a >= b THEN a ELSE b

\* random_start(signup_date): the dates it can return
random_start(signup_date, now) ==
  LET earliest == Max(signup_date, now - MAX_LOOKBACK_DAYS) IN
  IF earliest >= now THEN {now}
  ELSE {earliest + offset : offset \in RandInt(0, now - earliest)}

\* (variant) the duration is counted back from the start date
determine_end_date_Backwards(start_date, now, open, duration_days) ==
  IF open THEN << >>
  ELSE IF start_date - duration_days > now THEN << >>
  ELSE isoformat(start_date - duration_days)

\* determine_end_date(start_date): open is `random.random() < 0.3` and
\* duration_days the value of random.randint(30, 365)
determine_end_date(start_date, now, open, duration_days) ==
  IF open THEN << >>
  ELSE IF start_date + duration_days > now THEN << >>
  ELSE isoformat(start_date + duration_days)

\* the texts of the signup_date column of customers.csv, of str(sub_id), and
\* the keys of PLAN_WEIGHTS
SignupTexts == {<<2023, 1, 15>>, <<2024, 2, 29>>, <<2024, 12, 1>>, <<2025, 12, 25>>}
SubIdText(sub_id) == <<"1", "2", "3">>[sub_id]
PlanIds == {"1", "2", "3"}

\* str(b) of a bool
StrBool(b) == IF b THEN "True" ELSE "False"

\* one iteration of `for sub_id in range(1, NUM_SUBSCRIPTIONS + 1)`
GRow ==
  /\ gpc = "generate"
  /\ Len(generated) < GenRows
  /\ \E signup \in SignupTexts, plan_id \in PlanIds, open \in BOOLEAN,
        duration_days \in RandInt(30, 365), renew \in BOOLEAN :
     \E s \in random_start(DayOf(signup), today) :
       LET start_date == IF s > today THEN today ELSE s IN
       generated' = Append(generated,
         [subscription_id |-> SubIdText(Len(generated) + 1),
          customer_id |-> "1",
          plan_id |-> plan_id,
          start_date |-> isoformat(start_date),
          end_date |-> determine_end_date(start_date, today, open,
                                          duration_days),
          auto_renew |-> StrBool(renew)])
  /\ UNCHANGED <<gpc, today>>
  /\ UNCHANGED <<commonVars, schemaVars, stageVars, refVars, runVars,
                 loadVars, twiceVars>>

\* the typed row load_and_validate_schema makes of the n-th generated row
\* once write_csv has written it below the header (line n + 1)
TypedGenerated(row, n) ==
  [c \in {"subscription_id", "customer_id", "plan_id", "start_date",
          "end_date", "auto_renew", "_line"} |->
     CASE c = "subscription_id" -> parse_int(row.subscription_id).val
       [] c = "customer_id" -> parse_int(row.customer_id).val
       [] c = "plan_id" -> parse_int(row.plan_id).val
       [] c = "start_date" -> DateOfText(row.start_date)
       [] c = "end_date" ->
            IF row.end_date = << >> THEN NoneDate ELSE DateOfText(row.end_date)
       [] c = "auto_renew" -> parse_bool(row.auto_renew).val
       [] c = "_line" -> LineNumber(n)]

\* generate_subscriptions returned and main wrote the rows; the validator
\* reads them back and hands them to validate_subscriptions_logic
GValidate ==
  /\ gpc = "generate"
  /\ Len(generated) = GenRows
  /\ gpc' = "written"
  /\ rows' = [n \in 1..Len(generated) |-> TypedGenerated(generated[n], n)]
  /\ vpc' = "subs_rows"
  /\ UNCHANGED <<today, generated, idx, valid, invalid, errors>>
  /\ UNCHANGED <<commonVars, schemaVars, refVars, runVars, loadVars,
                 twiceVars>>

\* the current UTC date of the run
TodayTexts == {<<2025, 3, 1>>, <<2026, 11, 1>>}

InitGen ==
  /\ files = NoFiles /\ log = << >> /\ raised = NoExc
  /\ SchemaIdle /\ StageIdle /\ RefIdle /\ RunIdle /\ LoadIdle
  /\ TwiceIdle
  /\ gpc = "generate" /\ generated = << >>
  /\ \E t \in TodayTexts : today = DayOf(t)

NextGen == GRow \/ GValidate \/ LRow \/ LReturn

SpecGen == InitGen /\ [][NextGen]_vars

\* ============================================================= properties
\* the file load_and_validate_schema is reading and the rows its reader yields
TheFile == files[dataset]
TheRows == DataRows(TheFile)
Columns(ds) == SCHEMA_CONFIG[ds].columns

\* the configured columns of the dataset whose parser rejects the line's text
FailingColumns(ds, line) ==
  {i \in 1..Len(Columns(ds)) :
     /\ HasParser(ds, Columns(ds)[i])
     /\ ~ApplyParser(SCHEMA_CONFIG[ds].parsers[Columns(ds)[i]],
                     RowValue(Columns(ds), line, Columns(ds)[i])).ok}

FirstFailing(ds, line) ==
  CHOOSE i \in FailingColumns(ds, line) : \A j \in FailingColumns(ds, line) : i <= j

\* the row diagnostics logged for a dataset under a line number
Diagnostics(ds, n) ==
  {i \in 1..Len(log) :
     log[i].level = "ERROR" /\ log[i].dataset = ds /\ log[i].line = n}

\* C1: a file whose header differs from the declared column sequence in any
\* way (a column missing, added or renamed, or the same columns in another
\* order) makes load_and_validate_schema raise the column-mismatch error, and
\* it does so before any row is parsed: no typed row, no invalid count and no
\* diagnostic exists for the dataset.
C1_HeaderMismatchIsFatal ==
  (/\ spc # "open"
   /\ TheFile.exists /\ HasHeader(TheFile)
   /\ Fieldnames(TheFile) # Columns(dataset))
  => /\ spc = "raised"
     /\ raised = Exc("ValueError", "column mismatch")
     /\ reader = 0 /\ valid_rows = << >> /\ invalid_count = 0
     /\ typed_row = EmptyRow /\ log = << >>

\* the declared columns in another order, data rows present, the error raised
C1_Witness ==
  /\ spc = "raised"
  /\ TheFile.exists /\ HasHeader(TheFile)
  /\ Fieldnames(TheFile) # Columns(dataset)
  /\ Range(Fieldnames(TheFile)) = Range(Columns(dataset))
  /\ Len(Fieldnames(TheFile)) = Len(Columns(dataset))
  /\ Len(TheRows) > 0

\* C2: a data row with one or more configured columns that fail to parse is
\* left out of the typed rows, adds exactly one to the invalid counter and has
\* exactly one diagnostic, naming the first failing column in declared order;
\* the columns from the failing one on are not parsed (typed_row holds only
\* the columns before it), and the rows after it are still processed.
C2_FirstFailureRejectsRow ==
  /\ \A k \in 1..reader :
       FailingColumns(dataset, TheRows[k]) # {} =>
         /\ \A j \in 1..Len(valid_rows) : valid_rows[j]["_line"] # k + 1
         /\ Cardinality(Diagnostics(dataset, k + 1)) = 1
         /\ \A i \in Diagnostics(dataset, k + 1) :
              log[i].col = Columns(dataset)[FirstFailing(dataset, TheRows[k])]
  /\ invalid_count =
       Cardinality({k \in 1..reader : FailingColumns(dataset, TheRows[k]) # {}})
  /\ (reader > 0 /\ FailingColumns(dataset, TheRows[reader]) # {}) =>
       /\ ~row_valid
       /\ DOMAIN typed_row =
            {Columns(dataset)[i] :
               i \in 1..(FirstFailing(dataset, TheRows[reader]) - 1)}
  /\ spc = "returned" => reader = Len(TheRows)

\* a row with two failing columns was rejected and the row after it processed
C2_Witness ==
  /\ reader = 2
  /\ Cardinality(FailingColumns(dataset, TheRows[1])) >= 2
  /\ FirstFailing(dataset, TheRows[1]) > 1
  /\ invalid_count = 1
  /\ Len(valid_rows) = 1

\* C9: every typed row load_and_validate_schema holds or returns has all the
\* dataset's columns, each configured column carrying the value its parser
\* gave for the text of the row's line; a row whose parsing stopped part-way
\* is never among them.
C9_OnlyFullyTypedRows ==
  \A j \in 1..Len(valid_rows) :
    LET row == valid_rows[j]
        k == row["_line"] - 1
    IN /\ DOMAIN row = Range(Columns(dataset)) \cup {"_line"}
       /\ k \in 1..reader
       /\ FailingColumns(dataset, TheRows[k]) = {}
       /\ \A c \in Range(Columns(dataset)) :
            row[c] = IF HasParser(dataset, c)
                       THEN ApplyParser(SCHEMA_CONFIG[dataset].parsers[c],
                              RowValue(Columns(dataset), TheRows[k], c)).val
                       ELSE RowValue(Columns(dataset), TheRows[k], c)

\* the function returned with one typed row while a row that failed on a
\* later column (after some columns were typed) was left out
C9_Witness ==
  /\ spc = "returned"
  /\ Len(valid_rows) = 1
  /\ \E k \in 1..reader :
       /\ FailingColumns(dataset, TheRows[k]) # {}
       /\ FirstFailing(dataset, TheRows[k]) > 1

\* the position in the file, counted from 1 with the header on line 1, of the
\* line the k-th row of the reader was made from
PhysicalLine(file, k) ==
  CHOOSE n \in 2..Len(file.lines) :
    /\ file.lines[n] # << >>
    /\ Cardinality({m \in 2..n : file.lines[m] # << >>}) = k

\* C15 as claimed: the line number given to a row, stored in its typed row
\* and written in its diagnostic, is the position of the row's line in the
\* file (header on line 1, first data line on line 2), blank lines between
\* records counted.
C15_LineNumberIsSourceLine ==
  /\ reader > 0 => line_number = PhysicalLine(TheFile, reader)
  /\ \A k \in 1..reader :
       IF FailingColumns(dataset, TheRows[k]) = {}
         THEN \E j \in 1..Len(valid_rows) :
                valid_rows[j]["_line"] = PhysicalLine(TheFile, k)
         ELSE Diagnostics(dataset, PhysicalLine(TheFile, k)) # {}

\* the auto_renew text of the k-th row read, and what became of the row:
\* kept with a boolean, or rejected on the auto_renew column
BoolText(k) == TheRows[k][6]
BoolParsedAs(k, v) ==
  /\ \E j \in 1..Len(valid_rows) :
       valid_rows[j]["_line"] = k + 1 /\ valid_rows[j]["auto_renew"] = v
  /\ Diagnostics(dataset, k + 1) = {}
BoolRejected(k) ==
  /\ \A j \in 1..Len(valid_rows) : valid_rows[j]["_line"] # k + 1
  /\ \E i \in Diagnostics(dataset, k + 1) :
       log[i].col = "auto_renew" /\ log[i].kind = "ValueError"

\* the six literals in any letter case
TrueLiterals == {"true", "True", "TRUE", "tRuE", "1", "yes", "Yes", "YES"}
FalseLiterals == {"false", "False", "FALSE", "0", "no", "No", "NO"}
\* the same with whitespace before or after them
PaddedTrue == {" true ", " TRUE", " 1"}
PaddedFalse == {"no ", "0 "}

\* C16 as claimed: parse_bool gives true for "true", "1", "yes" and false for
\* "false", "0", "no" in any letter case, and fails on every other text, the
\* literals with whitespace around them and the empty text included.
C16_ExactLiteralsOnly ==
  \A k \in 1..reader :
    IF BoolText(k) \in TrueLiterals THEN BoolParsedAs(k, TRUE)
    ELSE IF BoolText(k) \in FalseLiterals THEN BoolParsedAs(k, FALSE)
    ELSE BoolRejected(k)

\* C16: parse_bool gives true for "true", "1", "yes" and false for "false",
\* "0", "no" in any letter case and with any whitespace before or after the
\* literal, and fails on every other text, the empty and the all-blank text
\* included.
C16_LiteralsAfterStrip ==
  \A k \in 1..reader :
    IF BoolText(k) \in TrueLiterals \cup PaddedTrue THEN BoolParsedAs(k, TRUE)
    ELSE IF BoolText(k) \in FalseLiterals \cup PaddedFalse
      THEN BoolParsedAs(k, FALSE)
    ELSE BoolRejected(k)

\* a padded upper-case literal was parsed as true and the blank text rejected
C16_Witness ==
  /\ reader = 2
  /\ BoolText(1) = " TRUE" /\ BoolParsedAs(1, TRUE)
  /\ BoolText(2) = " " /\ BoolRejected(2)

\* the columns of a dataset that have no parser
PlainColumns(ds) == {c \in Range(Columns(ds)) : ~HasParser(ds, c)}

\* C19: a column without configured parser never makes a row fail: a row
\* whose configured columns all parse is kept whatever the texts of its other
\* columns (the empty and the blank text included), no diagnostic names a
\* column without parser, and in the typed row such a column holds the text
\* of the line as it is.
C19_TextColumnsPassThrough ==
  /\ \A k \in 1..reader :
       FailingColumns(dataset, TheRows[k]) = {} =>
         \E j \in 1..Len(valid_rows) :
           /\ valid_rows[j]["_line"] = k + 1
           /\ \A c \in PlainColumns(dataset) :
                valid_rows[j][c] = RowValue(Columns(dataset), TheRows[k], c)
  /\ \A i \in 1..Len(log) :
       log[i].level = "ERROR" => log[i].col \notin PlainColumns(dataset)

\* two plans rows were kept, the name of one empty and of the other a blank
C19_Witness ==
  /\ dataset = "plans" /\ reader = 2 /\ Len(valid_rows) = 2
  /\ TheRows[1][2] = "" /\ valid_rows[1]["name"] = ""
  /\ TheRows[2][2] = " " /\ valid_rows[2]["name"] = " "

\* the file being read has the declared header and no data row after it
HeaderOnly ==
  /\ TheFile.exists /\ Len(TheFile.lines) > 0
  /\ TheFile.lines[1] = Columns(dataset)
  /\ \A n \in 2..Len(TheFile.lines) : TheFile.lines[n] = << >>

\* C20: a file made of the declared header and no data row (nothing, or
\* blank lines only, after the header) is valid input: the function raises
\* nothing and returns no typed row and an invalid count of zero, and the
\* only line it logs is the completion line with valid=0 and invalid=0.
C20_HeaderOnlyIsValid ==
  HeaderOnly =>
    /\ spc # "raised" /\ raised = NoExc
    /\ reader = 0 /\ valid_rows = << >> /\ invalid_count = 0
    /\ \A i \in 1..Len(log) : log[i].level # "ERROR"
    /\ spc = "returned" =>
         log = <<log_complete(dataset, "schema validation complete", 0, 0)>>

\* the function has returned from a file that holds the header line alone
C20_Witness ==
  /\ spc = "returned" /\ HeaderOnly
  /\ Len(TheFile.lines) = 1
  /\ Len(log) = 1 /\ log[1].valid = 0 /\ log[1].invalid = 0

\* the text of column c in the k-th row read
TextOf(k, c) == RowValue(Columns(dataset), TheRows[k], c)

\* the k-th row read was left out of the typed rows
Rejected(k) == \A j \in 1..Len(valid_rows) : valid_rows[j]["_line"] # k + 1

\* the texts that are ISO calendar dates (with or without a time of day)
DateTexts ==
  {"2024-01-01", "2024-06-15", "2024-12-31", "2024-01-01T10:00:00",
   "2024-12-31T23:59:00"}

\* the date and timestamp columns that must hold a value
RequiredDateColumns(ds) ==
  CASE ds = "customers" -> {"signup_date"}
    [] ds = "subscriptions" -> {"start_date"}
    [] ds = "usage_logs" -> {"timestamp"}
    [] OTHER -> {}

\* C21: in the column end_date the empty text parses to "no value" and never
\* rejects the row (a row whose other columns parse is kept, with no
\* end_date), while a non-empty text that is no calendar date rejects it; in
\* signup_date, start_date and timestamp the empty text is a parse failure:
\* the row is rejected, with that column named unless an earlier one failed.
C21_EmptyDateTexts ==
  \A k \in 1..reader :
    /\ dataset = "subscriptions" =>
         /\ TextOf(k, "end_date") = "" =>
              /\ \A i \in Diagnostics(dataset, k + 1) : log[i].col # "end_date"
              /\ (\A c \in Range(Columns(dataset)) \ {"end_date"} :
                    IndexOf(Columns(dataset), c)
                      \notin FailingColumns(dataset, TheRows[k]))
                 => \E j \in 1..Len(valid_rows) :
                      /\ valid_rows[j]["_line"] = k + 1
                      /\ valid_rows[j]["end_date"] = NoneDate
         /\ TextOf(k, "end_date") \notin DateTexts \cup {"", None} =>
              Rejected(k)
         /\ \A j \in 1..Len(valid_rows) :
              (valid_rows[j]["_line"] = k + 1 /\ TextOf(k, "end_date") # "")
                => valid_rows[j]["end_date"] # NoneDate
    /\ \A c \in RequiredDateColumns(dataset) :
         TextOf(k, c) = "" =>
           /\ Rejected(k)
           /\ \E i \in Diagnostics(dataset, k + 1) :
                IndexOf(Columns(dataset), log[i].col)
                  <= IndexOf(Columns(dataset), c)

\* a subscriptions row without end_date was kept as open-ended and one
\* without start_date rejected, its diagnostic naming start_date
C21_Witness ==
  /\ dataset = "subscriptions" /\ reader = 2
  /\ TextOf(1, "end_date") = "" /\ Len(valid_rows) = 1
  /\ valid_rows[1]["end_date"] = NoneDate
  /\ TextOf(2, "start_date") = "" /\ Rejected(2)
  /\ \E i \in Diagnostics(dataset, 3) : log[i].col = "start_date"

\* the k-th row read has fewer fields than the header, and the columns it
\* lacks
IsShort(k) == Len(TheRows[k]) < Len(Columns(dataset))
Missing(k) ==
  {Columns(dataset)[i] : i \in (Len(TheRows[k]) + 1)..Len(Columns(dataset))}

\* the k-th row read is a typed row whose missing columns hold None
AcceptedWithNone(k) ==
  \E j \in 1..Len(valid_rows) :
    /\ valid_rows[j]["_line"] = k + 1
    /\ \A c \in Missing(k) : valid_rows[j][c] = None

\* the part of C28 on rows that lack a column with a parser, and on the
\* dataset not being aborted
ShortRowsRejectedOnce ==
  /\ (\E k \in 1..reader : IsShort(k)) => spc # "raised" /\ raised = NoExc
  /\ spc = "returned" => reader = Len(TheRows)
  /\ invalid_count =
       Cardinality({k \in 1..reader : Diagnostics(dataset, k + 1) # {}})
  /\ \A k \in 1..reader :
       (IsShort(k) /\ \E c \in Missing(k) : HasParser(dataset, c)) =>
         /\ Rejected(k)
         /\ Cardinality(Diagnostics(dataset, k + 1)) = 1

\* C28 as claimed: a row with fewer fields than the header never aborts the
\* dataset; it is rejected with one diagnostic and one invalid count if a
\* missing column has a parser, and accepted with its missing columns
\* holding no text if only text columns are missing.
C28_ShortRowsAsClaimed ==
  /\ ShortRowsRejectedOnce
  /\ \A k \in 1..reader :
       (IsShort(k) /\ \A c \in Missing(k) : ~HasParser(dataset, c)) =>
         AcceptedWithNone(k)

\* C28: a row with fewer fields than the header never aborts the dataset; it
\* is rejected with one diagnostic and one invalid count if a missing column
\* has a parser; if only text columns are missing it is accepted with its
\* missing columns holding no text when the columns it has all parse, and
\* rejected with one diagnostic, naming the first column that fails, when
\* one of them does not.
C28_ShortRows ==
  /\ ShortRowsRejectedOnce
  /\ \A k \in 1..reader :
       (IsShort(k) /\ \A c \in Missing(k) : ~HasParser(dataset, c)) =>
         IF FailingColumns(dataset, TheRows[k]) = {}
           THEN AcceptedWithNone(k)
           ELSE /\ Rejected(k)
                /\ Cardinality(Diagnostics(dataset, k + 1)) = 1
                /\ \A i \in Diagnostics(dataset, k + 1) :
                     log[i].col =
                       Columns(dataset)[FirstFailing(dataset, TheRows[k])]

\* two customers rows were read: the first lacks device_type and country and
\* was accepted with None in both, the second lacks signup_date too and was
\* rejected with one diagnostic
C28_Witness ==
  /\ dataset = "customers" /\ spc = "returned" /\ reader = 2
  /\ Len(TheRows[1]) = 4 /\ AcceptedWithNone(1)
  /\ valid_rows[1]["device_type"] = None /\ valid_rows[1]["country"] = None
  /\ Len(TheRows[2]) = 3 /\ Rejected(2)
  /\ Cardinality(Diagnostics(dataset, 3)) = 1
  /\ invalid_count = 1

\* the argument rows of the second-stage validator that it kept
Kept(k) == \E j \in 1..Len(valid) : valid[j] = rows[k]

\* the four conditions of a usage row, as the claim words them
KnownCustomer(row) == row["customer_id"] \in customer_ids
KnownContent(row) == row["content_id"] \in DOMAIN content_duration
WithinContent(row) ==
  row["duration_watched"] <= content_duration[row["content_id"]]
RateInRange(row) ==
  /\ ~row["completion_rate"].nan
  /\ row["completion_rate"].tenths >= 0
  /\ row["completion_rate"].tenths <= 10

\* C3: validate_usage_rules keeps a usage row if and only if its customer_id
\* is a known customer, its content_id is a key of the content-duration map,
\* its duration_watched is at most that content's duration and its
\* completion_rate lies in [0, 1], both ends included; nothing else is kept.
C3_UsageKeptIffAllFour ==
  /\ \A k \in 1..idx :
       Kept(k) <=> (/\ KnownCustomer(rows[k])
                    /\ KnownContent(rows[k])
                    /\ WithinContent(rows[k])
                    /\ RateInRange(rows[k]))
  /\ \A j \in 1..Len(valid) : \E k \in 1..idx : valid[j] = rows[k]

\* a row on both inclusive ends (rate 1.0, duration equal to the content's)
\* was kept and a row that breaks only the customer rule was rejected
C3_Witness ==
  /\ vpc = "returned" /\ idx = 2
  /\ Kept(1)
  /\ rows[1]["completion_rate"] = Float(10) /\ rows[1]["duration_watched"] = 2
  /\ ~Kept(2)
  /\ ~KnownCustomer(rows[2]) /\ KnownContent(rows[2])
  /\ WithinContent(rows[2]) /\ RateInRange(rows[2])

\* the rules a usage row violates
ViolatedRules(row) ==
  (IF KnownCustomer(row) THEN {} ELSE {"unknown customer_id"})
  \cup (IF KnownContent(row) THEN {} ELSE {"unknown content_id"})
  \cup (IF KnownContent(row) /\ ~WithinContent(row)
          THEN {"duration_watched exceeds content duration"} ELSE {})
  \cup (IF RateInRange(row) THEN {} ELSE {"completion_rate outside 0-1 range"})

\* C4: validate_usage_rules evaluates every rule on every row: the
\* diagnostics logged under a row's line number are exactly one per rule the
\* row violates (none for a row that violates none), while the invalid counter
\* counts each rejected row once, however many rules it broke.
C4_OneDiagnosticPerViolation ==
  /\ \A k \in 1..idx :
       LET D == Diagnostics("usage_logs", rows[k]["_line"]) IN
       /\ {log[i].kind : i \in D} = ViolatedRules(rows[k])
       /\ Cardinality(D) = Cardinality(ViolatedRules(rows[k]))
  /\ invalid = Cardinality({k \in 1..idx : ViolatedRules(rows[k]) # {}})
  /\ idx > 0 => Range(errors) = ViolatedRules(rows[idx])

\* a row that breaks three rules has three diagnostics and counts once
C4_Witness ==
  /\ idx = 1
  /\ Cardinality(ViolatedRules(rows[1])) = 3
  /\ Cardinality(Diagnostics("usage_logs", rows[1]["_line"])) = 3
  /\ invalid = 1

\* C5: validate_subscriptions_logic rejects a subscription row if and only if
\* its end_date is present and its start_date is later than its end_date; a
\* row without end_date passes and so does a row that ends on its start date.
C5_RejectedIffStartAfterEnd ==
  /\ \A k \in 1..idx :
       /\ ~Kept(k) <=> (/\ rows[k]["end_date"] # NoneDate
                        /\ rows[k]["start_date"] > rows[k]["end_date"])
       /\ rows[k]["end_date"] = NoneDate => Kept(k)
       /\ rows[k]["start_date"] = rows[k]["end_date"] => Kept(k)
  /\ invalid = Cardinality({k \in 1..idx : ~Kept(k)})
  /\ \A k \in 1..idx :
       Cardinality(Diagnostics("subscriptions", rows[k]["_line"])) =
         IF Kept(k) THEN 0 ELSE 1

\* a row ending on its start date was kept, a row ending before it rejected
C5_Witness ==
  /\ vpc = "returned" /\ idx = 2
  /\ rows[1]["start_date"] = rows[1]["end_date"] /\ Kept(1)
  /\ rows[2]["end_date"] # NoneDate
  /\ rows[2]["start_date"] > rows[2]["end_date"] /\ ~Kept(2)
  /\ invalid = 1

\* ------------------------------------------------- whole-run properties
Good(d) ==
  /\ files[d].exists /\ HasHeader(files[d])
  /\ Fieldnames(files[d]) = Columns(d)
Mismatched(d) ==
  /\ files[d].exists /\ HasHeader(files[d])
  /\ Fieldnames(files[d]) # Columns(d)
Absent(d) == ~files[d].exists

Pos(d) == IndexOf(Datasets, d)
Terminated == pc \in {"done", "raised"}

\* what the log shows of a dataset
SchemaComplete(d) ==
  \E i \in 1..Len(log) :
    log[i].dataset = d /\ log[i].kind = "schema validation complete"
SummaryEmitted(d) ==
  \E i \in 1..Len(log) : log[i].dataset = d /\ log[i].kind = "summary"
Touched(d) == \E i \in 1..Len(log) : log[i].dataset = d

\* the datasets a dataset's checks or foreign keys refer to
Dependencies(d) ==
  CASE d = "subscriptions" -> {"customers", "plans"}
    [] d = "usage_logs" -> {"customers", "content"}
    [] OTHER -> {}

SourceLine(d, row) == DataRows(files[d])[row["_line"] - 1]

\* the typed row is the line it names, every configured column parsed
ParsedFrom(d, row) ==
  /\ row["_line"] - 1 \in 1..Len(DataRows(files[d]))
  /\ FailingColumns(d, SourceLine(d, row)) = {}
  /\ \A c \in Range(Columns(d)) :
       HasParser(d, c) =>
         row[c] = ApplyParser(SCHEMA_CONFIG[d].parsers[c],
                              RowValue(Columns(d), SourceLine(d, row), c)).val

AllParsedFrom(d, rs) == \A i \in 1..Len(rs) : ParsedFrom(d, rs[i])

\* C8: when run_validations has completed, every row of a dataset's valid
\* set passed every stage applied to the dataset: all rows parsed on all
\* configured columns, every subscriptions row satisfies the date-order rule
\* and every usage_logs row the four usage rules (against the customers and
\* content rows that are valid themselves).
C8_ValidSetsPassedEveryStage ==
  pc = "done" =>
    /\ AllParsedFrom("customers", customers)
    /\ AllParsedFrom("plans", plans)
    /\ AllParsedFrom("content", content)
    /\ AllParsedFrom("subscriptions", subscriptions)
    /\ AllParsedFrom("usage_logs", usage_logs)
    /\ \A i \in 1..Len(subscriptions) :
         \/ subscriptions[i]["end_date"] = NoneDate
         \/ subscriptions[i]["start_date"] <= subscriptions[i]["end_date"]
    /\ \A i \in 1..Len(usage_logs) :
         LET u == usage_logs[i] IN
         /\ \E j \in 1..Len(customers) :
              customers[j]["customer_id"] = u["customer_id"]
         /\ \E j \in 1..Len(content) :
              content[j]["content_id"] = u["content_id"]
         /\ \A j \in 1..Len(content) :
              (/\ content[j]["content_id"] = u["content_id"]
               /\ \A l \in (j + 1)..Len(content) :
                    content[l]["content_id"] # u["content_id"])
              => u["duration_watched"] <= content[j]["duration_minutes"]
         /\ ~u["completion_rate"].nan
         /\ u["completion_rate"].tenths >= 0
         /\ u["completion_rate"].tenths <= 10

\* a completed run that rejected a usage row and a subscriptions row at the
\* second stage and kept valid customers and content rows
C8_Witness ==
  /\ pc = "done"
  /\ Len(customers) = 1 /\ Len(content) = 1
  /\ usage_invalid = 0 /\ usage_logic_invalid = 1 /\ usage_logs = << >>
  /\ subs_invalid = 0 /\ subs_logic_invalid = 1 /\ subscriptions = << >>

AllGood == \A d \in DatasetNames : Good(d)

\* the summary has an entry for every dataset and its line was logged
FullSummary ==
  /\ DOMAIN summary = DatasetNames
  /\ \A d \in DatasetNames :
       /\ summary[d].valid \in Nat /\ summary[d].invalid \in Nat
       /\ \E i \in 1..Len(log) :
            log[i] = LogEntry("INFO", d, 0, "summary", "",
                              summary[d].valid, summary[d].invalid)

\* C11: when all five files exist with the declared header, run_validations
\* never ends with an error, whatever the rows hold (parse failures, logical
\* and referential violations stay inside the row they concern), and always
\* runs to completion, where the summary carries a valid and an invalid count
\* for each of the five datasets and one summary line per dataset was logged.
C11_GoodFilesAlwaysComplete ==
  /\ [](AllGood => /\ pc # "raised" /\ raised = NoExc
                   /\ pc = "done" => FullSummary)
  /\ (AllGood ~> (pc = "done" /\ FullSummary))

\* a completed run in which every dataset has a row and no row is valid:
\* three datasets lose theirs at the schema stage, two at the second stage
C11_Witness ==
  /\ pc = "done" /\ AllGood /\ FullSummary
  /\ \A d \in DatasetNames :
       Len(DataRows(files[d])) > 0 /\ summary[d].valid = 0
  /\ cust_invalid = 1 /\ plans_invalid = 1 /\ content_invalid = 1
  /\ subs_logic_invalid = 1 /\ usage_logic_invalid = 1

\* the position in the log of a dataset's schema-completion line (0 if none)
SchemaCompleteAt(d) ==
  IF SchemaComplete(d)
    THEN CHOOSE i \in 1..Len(log) :
           log[i].dataset = d /\ log[i].kind = "schema validation complete"
    ELSE 0

\* the log lines written by the second stage of a dataset
SecondStageLines(d) ==
  {i \in 1..Len(log) :
     /\ log[i].dataset = d
     /\ log[i].kind \in {"start_date after end_date",
                         "logical validation complete",
                         "unknown customer_id", "unknown content_id",
                         "duration_watched exceeds content duration",
                         "completion_rate outside 0-1 range",
                         "referential/logical validation complete"}}

\* C12: in every run the referential check of usage_logs is made only after
\* the schema validation of customers and of content has completed, and the
\* logical check of subscriptions only after the schema validation of
\* subscriptions has completed: the step that makes the check finds the
\* completion lines in the log, and every line the check writes comes after
\* them.
C12_ChecksAfterSchemaValidation ==
  /\ [][RUsageRules =>
         SchemaComplete("customers") /\ SchemaComplete("content")]_vars
  /\ [][RSubscriptionsLogic => SchemaComplete("subscriptions")]_vars
  /\ [](\A i \in SecondStageLines("usage_logs") :
          /\ SchemaComplete("customers") /\ SchemaCompleteAt("customers") < i
          /\ SchemaComplete("content") /\ SchemaCompleteAt("content") < i)
  /\ [](\A i \in SecondStageLines("subscriptions") :
          SchemaComplete("subscriptions")
            /\ SchemaCompleteAt("subscriptions") < i)

\* both second-stage checks have been made and each rejected a row, the
\* customers and content files having a valid row each
C12_Witness ==
  /\ pc = "summary"
  /\ Len(customers) = 1 /\ Len(content) = 1
  /\ \E i \in SecondStageLines("usage_logs") : log[i].level = "ERROR"
  /\ \E i \in SecondStageLines("subscriptions") : log[i].level = "ERROR"

\* the data rows of a dataset's file the schema stage rejects, and those it
\* passes but that are missing from the given rows of the second stage
SchemaRejected(d) ==
  {k \in 1..Len(DataRows(files[d])) :
     FailingColumns(d, DataRows(files[d])[k]) # {}}
SecondRejected(d, final) ==
  {k \in 1..Len(DataRows(files[d])) :
     /\ k \notin SchemaRejected(d)
     /\ \A j \in 1..Len(final) : final[j]["_line"] # k + 1}

\* C13: once the summary entries are made, the invalid total reported for
\* subscriptions and for usage_logs is the schema-stage count plus the
\* second-stage count; the schema-stage count is the number of data rows the
\* schema stage rejected and the second-stage count the number of other data
\* rows the second stage rejected, so a row counts at most once and the total
\* is at most the number of data rows.
C13_InvalidTotalCountsRowsOnce ==
  pc \in {"summary", "done"} =>
    /\ summary["subscriptions"].invalid = subs_invalid + subs_logic_invalid
    /\ subs_invalid = Cardinality(SchemaRejected("subscriptions"))
    /\ subs_logic_invalid =
         Cardinality(SecondRejected("subscriptions", subscriptions))
    /\ summary["subscriptions"].invalid <= Len(DataRows(files["subscriptions"]))
    /\ summary["usage_logs"].invalid = usage_invalid + usage_logic_invalid
    /\ usage_invalid = Cardinality(SchemaRejected("usage_logs"))
    /\ usage_logic_invalid =
         Cardinality(SecondRejected("usage_logs", usage_logs))
    /\ summary["usage_logs"].invalid <= Len(DataRows(files["usage_logs"]))

\* a completed run whose usage row was rejected by the schema stage and
\* whose subscriptions row by the logical check: each total is one
C13_Witness ==
  /\ pc = "done"
  /\ usage_invalid = 1 /\ usage_logic_invalid = 0
  /\ summary["usage_logs"].invalid = 1
  /\ subs_invalid = 0 /\ subs_logic_invalid = 1
  /\ summary["subscriptions"].invalid = 1

\* the line numbers of a sequence of typed rows are all different and none
\* is below 2
LinesUniqueFromTwo(rs) ==
  /\ \A i \in 1..Len(rs) : rs[i]["_line"] >= 2
  /\ \A i, j \in 1..Len(rs) : i # j => rs[i]["_line"] # rs[j]["_line"]

\* C14: every typed row load_and_validate_schema holds or returns carries a
\* line number that is at least 2 and differs from that of every other typed
\* row of the dataset; the same is true of the rows handed to the logical or
\* referential stage and of the rows that stage keeps.
C14_LineNumbersUniqueFromTwo ==
  /\ LinesUniqueFromTwo(valid_rows)
  /\ LinesUniqueFromTwo(rows)
  /\ LinesUniqueFromTwo(valid)

\* three rows were read, all passed the schema stage, and the second stage
\* has returned the first and the third: lines 2 and 4
C14_Witness ==
  /\ spc = "returned" /\ vpc = "returned"
  /\ Len(valid_rows) = 3 /\ Len(valid) = 2
  /\ valid[1]["_line"] = 2 /\ valid[2]["_line"] = 4

IsSubsequence(v, r) ==
  \E f \in [1..Len(v) -> 1..Len(r)] :
    /\ \A i, j \in 1..Len(v) : i < j => f[i] < f[j]
    /\ \A j \in 1..Len(v) : v[j] = r[f[j]]

\* the row satisfies the rule of the second stage of its dataset
PassesSecondStage(row) ==
  IF dataset = "subscriptions"
    THEN row["end_date"] = NoneDate \/ row["start_date"] <= row["end_date"]
    ELSE ViolatedRules(row) = {}

\* two typed rows that differ in their line number only
SameButLine(r1, r2) ==
  \A c \in Range(Columns(dataset)) : r1[c] = r2[c]

\* C18: the rows validate_subscriptions_logic and validate_usage_rules have
\* kept are rows of the argument with every field as it was, in the order of
\* the argument, and every row that satisfies the rules is among them, also
\* when it repeats the key or all the values of another row; the argument
\* itself is left as the schema stage returned it.
C18_SecondStageOnlyFilters ==
  vpc # "idle" =>
    /\ rows = valid_rows
    /\ IsSubsequence(valid, SubSeq(rows, 1, idx))
    /\ Len(valid) =
         Cardinality({k \in 1..idx : PassesSecondStage(rows[k])})
    /\ \A k \in 1..idx : PassesSecondStage(rows[k]) => Kept(k)

\* of three rows the first and the third carry the same values and both
\* were kept, in that order, while the second was rejected
C18_Witness ==
  /\ vpc = "returned" /\ Len(rows) = 3
  /\ SameButLine(rows[1], rows[3])
  /\ valid = <<rows[1], rows[3]>>
  /\ invalid = 1

\* the ids (first column) of the data rows of a dataset's file that parse on
\* every configured column
ValidIds(d) ==
  {parse_int(l[1]).val :
     l \in {m \in Range(DataRows(files[d])) : FailingColumns(d, m) = {}}}

\* the data rows of the usage file that pass the schema stage
ParsedUsage ==
  {k \in 1..Len(DataRows(files["usage_logs"])) :
     FailingColumns("usage_logs", DataRows(files["usage_logs"])[k]) = {}}

\* the usage row of line n is not among the run's valid usage rows and has a
\* diagnostic of the given kind
UsageRejectedAs(n, kind) ==
  /\ \A j \in 1..Len(usage_logs) : usage_logs[j]["_line"] # n
  /\ \E i \in Diagnostics("usage_logs", n) : log[i].kind = kind

\* C22: the known-customer set and the content-duration map hold the ids of
\* the customers and content rows that passed the schema stage and no other;
\* a usage row that refers to a customer_id or a content_id of which no row
\* passed the schema stage (its row was rejected there) is rejected as
\* unknown customer or unknown content.
C22_LookupsFromValidRows ==
  /\ pc \in {"usage_rules", "summary", "done"} =>
       /\ customer_ids = ValidIds("customers")
       /\ DOMAIN content_duration = ValidIds("content")
  /\ pc \in {"summary", "done"} =>
       \A k \in ParsedUsage :
         LET line == DataRows(files["usage_logs"])[k] IN
         /\ parse_int(line[2]).val \notin ValidIds("customers") =>
              UsageRejectedAs(k + 1, "unknown customer_id")
         /\ parse_int(line[3]).val \notin ValidIds("content") =>
              UsageRejectedAs(k + 1, "unknown content_id")

\* customer 2 and content 2 have a row each, both rejected by the schema
\* stage (customer 1 and content 1 have valid rows); the usage row that
\* refers to them was rejected as unknown customer and as unknown content
C22_Witness ==
  /\ pc = "done"
  /\ Len(DataRows(files["customers"])) = 2 /\ ValidIds("customers") = {1}
  /\ Len(DataRows(files["content"])) = 2 /\ ValidIds("content") = {1}
  /\ usage_invalid = 0 /\ usage_logic_invalid = 1
  /\ UsageRejectedAs(2, "unknown customer_id")
  /\ UsageRejectedAs(2, "unknown content_id")

\* the data rows of the subscriptions file that parse on every column and
\* whose start date is not after a present end date
SoundSubscriptions ==
  {k \in 1..Len(DataRows(files["subscriptions"])) :
     LET line == DataRows(files["subscriptions"])[k] IN
     /\ FailingColumns("subscriptions", line) = {}
     /\ \/ parse_optional_date(line[5]).val = NoneDate
        \/ parse_date(line[4]).val <= parse_optional_date(line[5]).val}

\* C23: referential validation is applied to usage_logs only: a subscriptions
\* row that parses and satisfies the date-order rule is among the valid
\* subscriptions of the run and is counted valid in the summary, whether or
\* not its customer_id is among the validated customers and its plan_id
\* among the validated plans.
C23_SubscriptionsNotReferential ==
  pc \in {"usage_logs", "lookups", "usage_rules", "summary", "done"} =>
    /\ \A k \in SoundSubscriptions :
         \E j \in 1..Len(subscriptions) : subscriptions[j]["_line"] = k + 1
    /\ summary["subscriptions"].valid = Cardinality(SoundSubscriptions)
    /\ summary["subscriptions"].invalid =
         Len(DataRows(files["subscriptions"])) - Cardinality(SoundSubscriptions)

\* the run is over; the subscriptions row refers to customer 3 and plan 3,
\* which no validated customers or plans row has, and was counted valid
C23_Witness ==
  /\ pc = "done"
  /\ Len(subscriptions) = 1
  /\ subscriptions[1]["customer_id"] \notin ValidIds("customers")
  /\ subscriptions[1]["plan_id"] \notin ValidIds("plans")
  /\ ValidIds("customers") # {} /\ ValidIds("plans") # {}
  /\ summary["subscriptions"] = Stats(1, 0)

\* the rows of a dataset that the run holds as valid
Final(d) ==
  CASE d = "customers" -> customers
    [] d = "plans" -> plans
    [] d = "content" -> content
    [] d = "subscriptions" -> subscriptions
    [] d = "usage_logs" -> usage_logs

\* C25: for every dataset of the summary, the reported valid count plus the
\* reported invalid count is the number of data rows of the dataset's file,
\* and once the run is over every data row is either among the dataset's
\* valid rows or has a diagnostic at its line, never both.
C25_CountsPartitionRows ==
  /\ \A d \in DOMAIN summary :
       summary[d].valid + summary[d].invalid = Len(DataRows(files[d]))
  /\ pc = "done" =>
       \A d \in DatasetNames :
         /\ summary[d].valid = Len(Final(d))
         /\ \A k \in 1..Len(DataRows(files[d])) :
              (\E j \in 1..Len(Final(d)) : Final(d)[j]["_line"] = k + 1)
                <=> Diagnostics(d, k + 1) = {}

\* the run is over; the subscriptions row passed the schema stage and was
\* rejected by the date-order check, the customers row was rejected by the
\* schema stage, the plans row is valid: each is counted once
C25_Witness ==
  /\ pc = "done"
  /\ subs_invalid = 0 /\ subs_logic_invalid = 1
  /\ summary["subscriptions"] = Stats(0, 1)
  /\ summary["customers"] = Stats(0, 1)
  /\ summary["plans"] = Stats(1, 0)

\* ----------------------------------------------------- loader properties
\* C30: every row generate_subscriptions produces has an end_date that is
\* empty or at least 30 days after its start_date (and not after the day of
\* the run); validate_subscriptions_logic, given the rows as the validator
\* reads them back, rejects none of them.
C30_GeneratedEndAfterStart ==
  /\ \A n \in 1..Len(generated) :
       \/ generated[n].end_date = << >>
       \/ /\ DayOf(generated[n].end_date) - DayOf(generated[n].start_date) >= 30
          /\ DayOf(generated[n].end_date) <= today
  /\ gpc = "written" =>
       /\ invalid = 0
       /\ \A i \in 1..Len(log) : log[i].level # "ERROR"
       /\ vpc = "returned" => valid = rows /\ Len(valid) = GenRows

\* a generated row that ends 30 days after it starts, across the end of
\* February of a leap year, went through validate_subscriptions_logic and
\* was kept
C30_Witness ==
  /\ gpc = "written" /\ vpc = "returned"
  /\ Len(generated) = GenRows
  /\ generated[1].start_date = <<2024, 2, 29>>
  /\ generated[1].end_date = <<2024, 3, 30>>
  /\ valid[1]["start_date"] = 20240229 /\ valid[1]["end_date"] = 20240330

\* the data rows of the content file that pass the schema stage and carry
\* the content_id c, and the duration_minutes of the last of them
ContentRowsOf(c) ==
  {i \in 1..Len(DataRows(files["content"])) :
     /\ FailingColumns("content", DataRows(files["content"])[i]) = {}
     /\ parse_int(DataRows(files["content"])[i][1]).val = c}

LastDuration(c) ==
  LET last == CHOOSE i \in ContentRowsOf(c) : \A j \in ContentRowsOf(c) : j <= i
  IN parse_int(DataRows(files["content"])[last][4]).val

\* C29: when schema-valid content rows share a content_id, the duration map
\* holds the duration_minutes of the last of them in file order; a usage row
\* that refers to the id is reported as exceeding the content duration
\* exactly when its duration_watched is greater than that duration, and is
\* never reported as unknown content.
C29_LastContentRowWins ==
  /\ pc \in {"usage_rules", "summary", "done"} =>
       \A c \in ValidIds("content") : content_duration[c] = LastDuration(c)
  /\ pc \in {"summary", "done"} =>
       \A k \in ParsedUsage :
         LET line == DataRows(files["usage_logs"])[k]
             c == parse_int(line[3]).val
         IN c \in ValidIds("content") =>
              /\ \A i \in Diagnostics("usage_logs", k + 1) :
                   log[i].kind # "unknown content_id"
              /\ (\E i \in Diagnostics("usage_logs", k + 1) :
                    log[i].kind = "duration_watched exceeds content duration")
                   <=> parse_int(line[5]).val > LastDuration(c)

\* the run is over; two valid content rows carry content_id 1, the first
\* with 2 minutes and the last with 3; the usage row that watched 3 minutes
\* of content 1 is valid
C29_Witness ==
  /\ pc = "done"
  /\ Len(content) = 2
  /\ content[1]["content_id"] = 1 /\ content[1]["duration_minutes"] = 2
  /\ content[2]["content_id"] = 1 /\ content[2]["duration_minutes"] = 3
  /\ Len(usage_logs) = 1
  /\ usage_logs[1]["content_id"] = 1 /\ usage_logs[1]["duration_watched"] = 3

\* the log line ingest_table wrote on returning from the table's load
Loaded(t) ==
  {i \in 1..Len(log) : log[i].kind = "replaced" /\ log[i].dataset = t}

\* the tables a table's foreign keys reference
Parents(t) == {ForeignKeys(t)[c] : c \in DOMAIN ForeignKeys(t)}

\* C27: load_all_tables ingests every referenced table before any table that
\* references it: when a table has been loaded, or holds a row, each table
\* its foreign keys reference (customers and plans for subscriptions,
\* customers and content for usage_logs) was loaded earlier; the table that
\* is about to be loaded has all its referenced tables loaded.
C27_ParentsLoadedFirst ==
  /\ Parents("subscriptions") = {"customers", "plans"}
  /\ Parents("usage_logs") = {"customers", "content"}
  /\ \A t \in DatasetNames : \A p \in Parents(t) :
       /\ \A i \in Loaded(t) : \E j \in Loaded(p) : j < i
       /\ db[t] # << >> => Loaded(p) # {}
       /\ (lpc = "load_all_tables" /\ table_i <= Len(configs)
             /\ configs[table_i] = t) => Loaded(p) # {}

\* the load completed; subscriptions and usage_logs hold a row each, inserted
\* after customers, plans and content were loaded
C27_Witness ==
  /\ lpc = "closed" /\ raised = NoExc
  /\ db["subscriptions"] # << >> /\ db["usage_logs"] # << >>
  /\ \A t \in DatasetNames : Cardinality(Loaded(t)) = 1

\* C26: validator and loader agree on auto_renew: when the load has
\* completed, every stored subscriptions row whose auto_renew text parse_bool
\* accepts holds 1 where parse_bool gives true and 0 where it gives false.
C26_LoaderStoresParsedBool ==
  (lpc = "closed" /\ raised = NoExc) =>
    \A k \in 1..Len(db["subscriptions"]) :
      LET text == LoaderRows(files["subscriptions"])[k][6] IN
      parse_bool(text).ok =>
        db["subscriptions"][k]["auto_renew"] =
          (IF parse_bool(text).val THEN 1 ELSE 0)

\* the tuples the table's transformer makes of the data rows of its file
FileTuples(t) ==
  [i \in 1..Len(LoaderRows(files[t])) |->
     TransformRow(t, Fieldnames(files[t]), LoaderRows(files[t])[i]).val]

\* C24: after ingest_table returns, the table holds one row per data row of
\* the file, the transformed rows in the file's order, whatever it held
\* before the call; a second call on the same file that returns leaves the
\* same contents.
C24_IngestReplaces ==
  (lpc \in {"again", "closed"} /\ raised = NoExc) =>
    db[dataset] = FileTuples(dataset)

\* ingest_table returned twice; before the first call the table held a row
\* that the file does not hold, and now it holds the file's row
C24_Witness ==
  /\ lpc = "closed" /\ raised = NoExc
  /\ held # << >> /\ held # db[dataset]
  /\ Len(db[dataset]) = 1

\* the rows of a dataset that pass every validation stage applied to it, for
\* the files at hand
SchemaValid(d) == load_and_validate_schema(d, files[d]).valid_rows

FinalValid(d) ==
  CASE d = "subscriptions" ->
         validate_subscriptions_logic(SchemaValid(d)).valid
    [] d = "usage_logs" ->
         validate_usage_rules(SchemaValid(d),
                              CustomerIds(SchemaValid("customers")),
                              ContentDuration(SchemaValid("content"))).valid
    [] OTHER -> SchemaValid(d)

ValidLineNumbers(d) ==
  {FinalValid(d)[i]["_line"] : i \in 1..Len(FinalValid(d))}

\* C7 as claimed: every row the loader has put into a table comes from a
\* line that passed every validation stage of its dataset (the k-th row of a
\* table is made from the k-th data row, which the validator numbers k + 1).
C7_LoaderInsertsOnlyValidRows ==
  \A t \in DatasetNames :
    \A k \in 1..Len(db[t]) : (k + 1) \in ValidLineNumbers(t)

====
